---- MODULE Spec2Model ----
(***************************************************************************)
(* The task store of the StandUp extension (utils.ts): date- and           *)
(* profile-partitioned task lists in a key-value store, the one-time       *)
(* migration of the legacy undated record, and the rollover of unfinished  *)
(* tasks into today's partition; and the task list view (TaskListView.tsx) *)
(* with its undo and redo stacks over the store.                           *)
(***************************************************************************)
EXTENDS Integers, Sequences, FiniteSets, TLC

VARIABLES
    storage,    \* LocalStorage: a function from the keys present to their string values
    today,      \* the calendar date new Date() yields, as getDateString renders it
    last,       \* history: the last store operation, its arguments, result and writes
    view        \* TaskListView: its date, tasks, undoStack, redoStack and the
                \* loadTasks calls in flight

vars == <<storage, today, last, view>>

----------------------------------------------------------------------------
(* Bounds of the model.                                                    *)

\* The most tasks the dated partitions hold together after a create or save.
MaxStored == 3

\* The same for the specification of several profiles.
MaxApiStored == 2

\* The longest list a caller hands to saveTasks.
MaxSaveLen == 1

\* The most tasks the view's partition holds after a create of the view.
MaxViewTasks == 1

\* The most snapshots the undo and redo stacks hold together.
MaxHistory == 2

\* The most loadTasks calls in flight at once.
MaxLoads == 2

----------------------------------------------------------------------------
(* Strings.  Keys and dates are TLA+ strings; characters are compared by    *)
(* their UTF-16 code units, as JavaScript's relational operators do.        *)

TASKS_KEY_PREFIX == "tasks_"
DEFAULT_PROFILE == "Work"
LEGACY_KEY == "tasks"

Digits == {"0", "1", "2", "3", "4", "5", "6", "7", "8", "9"}

CharAt(s, i) == SubSeq(s, i, i)

\* Code unit of the characters that occur in the keys of this model.
CharCode(c) ==
    CASE c = "-" -> 45
      [] c = "0" -> 48 [] c = "1" -> 49 [] c = "2" -> 50 [] c = "3" -> 51
      [] c = "4" -> 52 [] c = "5" -> 53 [] c = "6" -> 54 [] c = "7" -> 55
      [] c = "8" -> 56 [] c = "9" -> 57
      [] c = "W" -> 87 [] c = "_" -> 95
      [] c = "a" -> 97 [] c = "b" -> 98 [] c = "c" -> 99
      [] c = "k" -> 107 [] c = "o" -> 111 [] c = "r" -> 114
      [] c = "s" -> 115 [] c = "t" -> 116

\* a < b for JavaScript strings: the first differing code unit decides, and a
\* proper prefix is smaller.
RECURSIVE StrLess(_, _)
StrLess(a, b) ==
    IF b = "" THEN FALSE
    ELSE IF a = "" THEN TRUE
    ELSE IF CharAt(a, 1) = CharAt(b, 1)
         THEN StrLess(SubSeq(a, 2, Len(a)), SubSeq(b, 2, Len(b)))
         ELSE CharCode(CharAt(a, 1)) < CharCode(CharAt(b, 1))

\* String.prototype.startsWith
StartsWith(s, prefix) ==
    /\ Len(s) >= Len(prefix)
    /\ SubSeq(s, 1, Len(prefix)) = prefix

\* String.prototype.slice(n)
Slice(s, n) == SubSeq(s, n + 1, Len(s))

\* A looser test, the one the comment of line 152 considers: the suffix starts
\* with a digit.  RolloverStaysInProfile is tested against it.
IsDateStringLoose(s) == Len(s) >= 1 /\ CharAt(s, 1) \in Digits

\* /^\d{4}-\d{2}-\d{2}$/.test(s)
IsDateString(s) ==
    /\ Len(s) = 10
    /\ \A i \in {1, 2, 3, 4, 6, 7, 9, 10} : CharAt(s, i) \in Digits
    /\ CharAt(s, 5) = "-"
    /\ CharAt(s, 8) = "-"

----------------------------------------------------------------------------
(* The data of the model.                                                  *)

\* Calendar dates as getDateString renders them.
D1 == "2024-01-01"
D2 == "2024-01-02"
D3 == "2024-01-03"
Dates == {D1, D2, D3}

\* The day after a date, for the dates of the model.
NextDay(d) == IF d = D1 THEN D2 ELSE D3

\* Profile names: the default profile, a custom profile, and a second custom
\* profile whose name starts with the first one's name and an underscore.
Profiles == {DEFAULT_PROFILE, "1st", "1st_1"}

\* The (date, profile) pairs the callers of the model address.
Pairs ==
    {<<D1, DEFAULT_PROFILE>>, <<D2, DEFAULT_PROFILE>>, <<D1, "1st">>, <<D1, "1st_1">>}

Ids == {"a", "b", "c"}
Statuses == {"todo", "done"}

\* types.ts Task, with the fields the store reads (id, status); title stands
\* for the fields the store only carries.
Task == [id : Ids, status : Statuses, title : {"t"}]

MkTask(i, s) == [id |-> i, status |-> s, title |-> "t"]

IdsOf(tasks) == {tasks[i].id : i \in 1..Len(tasks)}

UniqueIds(tasks) ==
    \A i, j \in 1..Len(tasks) : tasks[i].id = tasks[j].id => i = j

\* The lists of at most n tasks with pairwise different ids.
TaskLists(n) ==
    UNION {{l \in [1..k -> Task] : UniqueIds(l)} : k \in 0..n}

----------------------------------------------------------------------------
(* Stored values.  A value is a string; the store only asks whether it is   *)
(* empty, whether JSON.parse accepts it, and which task array it denotes.   *)

\* JSON.stringify(tasks)
Stringify(tasks) == [kind |-> "json", tasks |-> tasks]

\* A non-empty string that JSON.parse rejects.
Garbage == [kind |-> "garbage", tasks |-> <<>>]

\* JSON.parse(value): ok is FALSE where it throws.
Parse(value) ==
    IF value.kind = "json"
    THEN [ok |-> TRUE, tasks |-> value.tasks]
    ELSE [ok |-> FALSE, tasks |-> <<>>]

\* try { return JSON.parse(v) } catch { return [] }
\* A parser that salvages a task from text it cannot parse.
\* LoadOfAbsentIsEmptyUnlessLegacy is tested against it.
ParseOrSalvage(value) ==
    IF Parse(value).ok THEN Parse(value).tasks ELSE <<MkTask("a", "todo")>>

ParseOrEmpty(value) == IF Parse(value).ok THEN Parse(value).tasks ELSE <<>>

Has(store, key) == key \in DOMAIN store

\* LocalStorage.setItem
SetItem(store, key, value) ==
    [k \in DOMAIN store \cup {key} |-> IF k = key THEN value ELSE store[k]]

\* LocalStorage.removeItem
RemoveItem(store, key) == [k \in DOMAIN store \ {key} |-> store[k]]

EmptyStore == [k \in {} |-> Garbage]

----------------------------------------------------------------------------
(* utils.ts: keys, load and save.  Every operation is an operator from the  *)
(* store before to a record of the store after, the value returned, the     *)
(* keys written or removed (in order) and the number of note exports fired. *)

\* An empty string is falsy: `if (!data)`, `if (oldData)`.
Truthy(value) == value.kind # "empty"

\* The key of the schema before profiles, which has no profile segment.
\* PartitionsIsolated is tested against it.
GetTaskKeyNoProfile(date, profile) == TASKS_KEY_PREFIX \o date

GetTaskKey(date, profile) ==
    IF profile = DEFAULT_PROFILE
    THEN TASKS_KEY_PREFIX \o date
    ELSE TASKS_KEY_PREFIX \o profile \o "_" \o date

\* getTasks, lines 55-57: the legacy record is migrated by loads of the
\* default profile that find it present and non-empty.
LegacyPending(store, profile) ==
    /\ profile = DEFAULT_PROFILE
    /\ Has(store, LEGACY_KEY)
    /\ Truthy(store[LEGACY_KEY])

\* A migration that copies the legacy value and leaves the legacy key.
\* LegacyMigratesOnce is tested against it.
MoveLegacyKeepsKey(store, now) ==
    SetItem(store, GetTaskKey(now, DEFAULT_PROFILE), store[LEGACY_KEY])

\* getTasks, lines 58-60: move the legacy value under today's default key.
MoveLegacy(store, now) ==
    SetItem(RemoveItem(store, LEGACY_KEY),
            GetTaskKey(now, DEFAULT_PROFILE), store[LEGACY_KEY])

\* getTasks, lines 71-77: the parsed list under a key, or the empty list.
ReadList(store, key) ==
    IF Has(store, key) /\ Truthy(store[key])
    THEN ParseOrEmpty(store[key])
    ELSE <<>>

\* getTasks(date, profile), with `now` the date new Date() yields.
GetTasks(store, date, profile, now) ==
    LET dateKey == GetTaskKey(date, profile)
        todayKey == GetTaskKey(now, DEFAULT_PROFILE)
    IN  IF LegacyPending(store, profile)
        THEN [store |-> MoveLegacy(store, now),
              ret |-> IF dateKey = todayKey
                      THEN ParseOrEmpty(store[LEGACY_KEY])
                      ELSE ReadList(MoveLegacy(store, now), dateKey),
              writes |-> <<LEGACY_KEY, todayKey>>,
              exports |-> 0]
        ELSE [store |-> store,
              ret |-> ReadList(store, dateKey),
              writes |-> <<>>,
              exports |-> 0]

\* saveTasks(date, tasks, profile): one write, then one fire-and-forget
\* syncDailyNote.
SaveTasks(store, date, tasks, profile) ==
    [store |-> SetItem(store, GetTaskKey(date, profile), Stringify(tasks)),
     ret |-> <<>>,
     writes |-> <<GetTaskKey(date, profile)>>,
     exports |-> 1]

\* createTask with unshift in place of push.  CreateThenLoad is tested
\* against it.
CreateTaskUnshift(store, task, date, profile, now) ==
    LET g == GetTasks(store, date, profile, now)
        s == SaveTasks(g.store, date, <<task>> \o g.ret, profile)
    IN  [store |-> s.store, ret |-> g.ret,
         writes |-> g.writes \o s.writes, exports |-> s.exports]

\* createTask(task, date, profile)
CreateTask(store, task, date, profile, now) ==
    LET g == GetTasks(store, date, profile, now)
        s == SaveTasks(g.store, date, Append(g.ret, task), profile)
    IN  [store |-> s.store, ret |-> g.ret,
         writes |-> g.writes \o s.writes, exports |-> s.exports]

\* tasks.findIndex((t) => t.id === id): 0 stands for -1.
FindIndex(tasks, id) ==
    IF id \in IdsOf(tasks)
    THEN CHOOSE i \in 1..Len(tasks) :
            /\ tasks[i].id = id
            /\ \A j \in 1..(i - 1) : tasks[j].id # id
    ELSE 0

\* updateTask that saves whether or not it found the id.
\* UpdateReplacesInPlace is tested against it.
UpdateTaskAlwaysSaves(store, updatedTask, date, profile, now) ==
    LET g == GetTasks(store, date, profile, now)
        index == FindIndex(g.ret, updatedTask.id)
        newTasks == IF index # 0
                    THEN [g.ret EXCEPT ![index] = updatedTask]
                    ELSE g.ret
        s == SaveTasks(g.store, date, newTasks, profile)
    IN  [store |-> s.store, ret |-> g.ret,
         writes |-> g.writes \o s.writes, exports |-> s.exports]

\* updateTask(updatedTask, date, profile)
UpdateTask(store, updatedTask, date, profile, now) ==
    LET g == GetTasks(store, date, profile, now)
        index == FindIndex(g.ret, updatedTask.id)
        s == SaveTasks(g.store, date, [g.ret EXCEPT ![index] = updatedTask], profile)
    IN  IF index # 0
        THEN [store |-> s.store, ret |-> g.ret,
              writes |-> g.writes \o s.writes, exports |-> s.exports]
        ELSE [store |-> g.store, ret |-> g.ret,
              writes |-> g.writes, exports |-> 0]

\* deleteTask that saves only a list it has shortened.
\* DeleteAlwaysWrites is tested against it.
DeleteTaskIfChanged(store, taskId, date, profile, now) ==
    LET g == GetTasks(store, date, profile, now)
        newTasks == SelectSeq(g.ret, LAMBDA t : t.id # taskId)
        s == SaveTasks(g.store, date, newTasks, profile)
    IN  IF Len(newTasks) # Len(g.ret)
        THEN [store |-> s.store, ret |-> g.ret,
              writes |-> g.writes \o s.writes, exports |-> s.exports]
        ELSE [store |-> g.store, ret |-> g.ret,
              writes |-> g.writes, exports |-> 0]

\* deleteTask(taskId, date, profile)
DeleteTask(store, taskId, date, profile, now) ==
    LET g == GetTasks(store, date, profile, now)
        newTasks == SelectSeq(g.ret, LAMBDA t : t.id # taskId)
        s == SaveTasks(g.store, date, newTasks, profile)
    IN  [store |-> s.store, ret |-> g.ret,
         writes |-> g.writes \o s.writes, exports |-> s.exports]

----------------------------------------------------------------------------
(* utils.ts migrateTasksToToday: the rollover of unfinished tasks.          *)

\* lines 133-136
SearchPrefix(profile) ==
    IF profile = DEFAULT_PROFILE
    THEN TASKS_KEY_PREFIX
    ELSE TASKS_KEY_PREFIX \o profile \o "_"

\* lines 163 and 179: key.slice(searchPrefix.length)
KeySuffix(key, profile) == Slice(key, Len(SearchPrefix(profile)))

\* lines 139-184: the key starts with the profile's prefix and what follows
\* is a date (both branches of the code apply the same test).
BelongsTo(key, profile) ==
    /\ StartsWith(key, SearchPrefix(profile))
    /\ IsDateString(KeySuffix(key, profile))

\* `>` in place of `>=` in line 186: today's partition is scanned too.
\* OnlyPastIsSource is tested against it.
IsPastOrToday(dateStr, todayStr) == ~StrLess(todayStr, dateStr)

\* line 186: `if (dateStr >= todayStr) continue`
IsPast(dateStr, todayStr) == StrLess(dateStr, todayStr)

\* The keys whose values the loop of lines 138-209 parses.
ScannedKeys(store, profile, todayStr) ==
    {key \in DOMAIN store :
        /\ StartsWith(key, SearchPrefix(profile))
        /\ BelongsTo(key, profile)
        /\ IsPast(KeySuffix(key, profile), todayStr)}

\* The loop of lines 193-201 without the test of the status.
\* MovesExactlyUnfinished is tested against it.
NotDoneAll(tasks) == tasks

\* lines 193-201: the tasks pushed to migratedTasks ...
NotDone(tasks) == SelectSeq(tasks, LAMBDA t : t.status # "done")

\* The past partition written back empty.  RolloverLosesNoTask is tested
\* against it.
RemainingTasksNone(tasks) == <<>>

\* The past partition written back whole.  RolloverIdempotent is tested
\* against it.
RemainingTasksKeepAll(tasks) == tasks

\* ... and those pushed to remainingTasks.
RemainingTasks(tasks) == SelectSeq(tasks, LAMBDA t : t.status = "done")

\* The scan of one key without the hasChanges test of line 203.
\* RewritesOnlyChanged is tested against it.
ScanKeyAlwaysWrites(acc, key, value) ==
    IF ~Parse(value).ok
    THEN acc
    ELSE [store |-> SetItem(acc.store, key,
                            Stringify(RemainingTasks(Parse(value).tasks))),
          migrated |-> acc.migrated \o NotDone(Parse(value).tasks),
          count |-> acc.count + Len(NotDone(Parse(value).tasks)),
          writes |-> Append(acc.writes, key)]

\* lines 188-208 for one key of the snapshot: acc holds the store, the
\* migratedTasks, the migratoryCount and the keys written so far.
ScanKey(acc, key, value) ==
    IF ~Parse(value).ok
    THEN acc
    ELSE LET tasks == Parse(value).tasks
             hasChanges == Len(NotDone(tasks)) > 0
         IN  [store |-> IF hasChanges
                        THEN SetItem(acc.store, key, Stringify(RemainingTasks(tasks)))
                        ELSE acc.store,
              migrated |-> acc.migrated \o NotDone(tasks),
              count |-> acc.count + Len(NotDone(tasks)),
              writes |-> IF hasChanges THEN Append(acc.writes, key) ELSE acc.writes]

\* The loop of lines 138-209 over the scanned keys of the snapshot allItems,
\* visited in the order `order`.
RECURSIVE ScanPast(_, _, _)
ScanPast(acc, allItems, order) ==
    IF order = <<>>
    THEN acc
    ELSE ScanPast(ScanKey(acc, Head(order), allItems[Head(order)]),
                  allItems, Tail(order))

\* Lines 214-215 left out: every collected task is appended.
\* NoDuplicateOfTodaysTask is tested against it.
UniqueMigratedUnfiltered(migratedTasks, todayTasks) == migratedTasks

\* lines 214-215: the collected tasks whose id today's list does not hold.
UniqueMigrated(migratedTasks, todayTasks) ==
    SelectSeq(migratedTasks, LAMBDA t : t.id \notin IdsOf(todayTasks))

\* migrateTasksToToday(profile), with `now` the date new Date() yields and
\* `order` the order in which Object.entries(allItems) lists the scanned keys.
\* appended is the list the call appends to today's list.
MigrateTasksToToday(store, profile, now, order) ==
    LET scan == ScanPast([store |-> store, migrated |-> <<>>, count |-> 0,
                          writes |-> <<>>], store, order)
        g == GetTasks(scan.store, now, profile, now)
        uniqueMigrated == UniqueMigrated(scan.migrated, g.ret)
        s == SaveTasks(g.store, now, g.ret \o uniqueMigrated, profile)
    IN  IF Len(scan.migrated) > 0
        THEN IF Len(uniqueMigrated) > 0
             THEN [store |-> s.store, ret |-> scan.count,
                   writes |-> scan.writes \o g.writes \o s.writes,
                   exports |-> s.exports, appended |-> uniqueMigrated]
             ELSE [store |-> g.store, ret |-> scan.count,
                   writes |-> scan.writes \o g.writes,
                   exports |-> 0, appended |-> <<>>]
        ELSE [store |-> scan.store, ret |-> scan.count,
              writes |-> scan.writes, exports |-> 0, appended |-> <<>>]

\* The orders in which a set of keys can be listed.
Orders(keys) ==
    {o \in [1..Cardinality(keys) -> keys] :
        \A i, j \in 1..Cardinality(keys) : o[i] = o[j] => i = j}

----------------------------------------------------------------------------
(* The state machine: the operations of the store, called in any order     *)
(* with arguments from the sets above, and the passing of midnight.        *)

\* The number of tasks held in the dated partitions of a store.
RECURSIVE SumLen(_, _)
SumLen(store, keys) ==
    IF keys = {} THEN 0
    ELSE LET k == CHOOSE x \in keys : TRUE
         IN  Len(ParseOrEmpty(store[k])) + SumLen(store, keys \ {k})

Stored(store) == SumLen(store, DOMAIN store \ {LEGACY_KEY})

\* The ids held anywhere in a store.
StoredIds(store) == UNION {IdsOf(ParseOrEmpty(store[k])) : k \in DOMAIN store}

\* uuidv4(): an id no stored task carries (the least one, ids being opaque).
FreshId(store) ==
    CHOOSE i \in Ids \ StoredIds(store) :
        \A j \in Ids \ StoredIds(store) : ~StrLess(j, i)

\* What `last` holds of an operation: its name, and for a rollover the
\* profile, the date it ran on, the count returned, the keys written or
\* removed and the number of exports fired.
Record(op, profile, date, r) ==
    [op |-> op, profile |-> profile, date |-> date,
     ret |-> r.ret, writes |-> r.writes, exports |-> r.exports]

Quiet == [ret |-> 0, writes |-> <<>>, exports |-> 0]

\* The values the legacy record of a store written by the undated schema holds.
LegacyValues == {Stringify(<<MkTask("a", "todo")>>), Garbage}

\* The lists a caller hands to saveTasks.
SaveLists == TaskLists(MaxSaveLen)

\* No view is open.
NoView ==
    [date |-> "", tasks |-> <<>>, undoStack |-> <<>>, redoStack |-> <<>>,
     loads |-> <<>>]

\* The store as the first run of this version finds it: empty, or holding
\* only the legacy record of the undated schema.
Init ==
    /\ storage \in {EmptyStore} \cup
                   {SetItem(EmptyStore, LEGACY_KEY, v) : v \in LegacyValues}
    /\ today = D2
    /\ last = Record("none", "", "", Quiet)
    /\ view = NoView

\* getTasks(date, profile), as loadTasks and TaskDetail call it.
Load(date, profile) ==
    LET r == GetTasks(storage, date, profile, today)
    IN  /\ storage' = r.store
        /\ last' = Record("load", "", "", Quiet)
        /\ UNCHANGED <<today, view>>

\* saveTasks(date, tasks, profile), as handleUndo and handleRedo call it:
\* with a list of a view that loadTasks has loaded before, so that the load
\* has already migrated a pending legacy record.
Save(tasks, date, profile) ==
    LET r == SaveTasks(storage, date, tasks, profile)
    IN  /\ ~LegacyPending(storage, profile)
        /\ storage' = r.store
        /\ last' = Record("save", "", "", Quiet)
        /\ UNCHANGED <<today, view>>

\* createTask with a task whose id is uuidv4().
Create(status, date, profile) ==
    /\ Ids \ StoredIds(storage) # {}
    /\ LET task == MkTask(FreshId(storage), status)
           r == CreateTask(storage, task, date, profile, today)
       IN  /\ storage' = r.store
           /\ last' = Record("create", "", "", Quiet)
           /\ UNCHANGED <<today, view>>

\* updateTask, as the view calls it: on a task of a list that a load has
\* returned, so that the load has already migrated a pending legacy record.
Update(task, date, profile) ==
    LET r == UpdateTask(storage, task, date, profile, today)
    IN  /\ ~LegacyPending(storage, profile)
        /\ storage' = r.store
        /\ last' = Record("update", "", "", Quiet)
        /\ UNCHANGED <<today, view>>

\* deleteTask, as the view calls it: on a task of a loaded list.
Delete(id, date, profile) ==
    LET r == DeleteTask(storage, id, date, profile, today)
    IN  /\ ~LegacyPending(storage, profile)
        /\ storage' = r.store
        /\ last' = Record("delete", "", "", Quiet)
        /\ UNCHANGED <<today, view>>

\* migrateTasksToToday(profile); Object.entries lists the keys in some order.
Rollover(profile) ==
    \E order \in Orders(ScannedKeys(storage, profile, today)) :
        LET r == MigrateTasksToToday(storage, profile, today, order)
        IN  /\ storage' = r.store
            /\ last' = Record("rollover", profile, today,
                              [ret |-> r.ret, writes |-> r.writes,
                               exports |-> r.exports])
            /\ UNCHANGED <<today, view>>

\* Midnight passes.
Tick ==
    /\ today # D3
    /\ today' = NextDay(today)
    /\ UNCHANGED <<storage, last, view>>

\* The store of one profile over the days: the partitions of the default
\* profile are filled, days pass and rollover runs.
DefaultPairs == {<<d, DEFAULT_PROFILE>> : d \in Dates}

NextRollover ==
    \/ \E pair \in DefaultPairs, tasks \in SaveLists :
            Save(tasks, pair[1], pair[2]) /\ Stored(storage') <= MaxStored
    \/ \E pair \in DefaultPairs, status \in Statuses :
            Create(status, pair[1], pair[2]) /\ Stored(storage') <= MaxStored
    \/ Rollover(DEFAULT_PROFILE)
    \/ Tick

SpecRollover == Init /\ [][NextRollover]_vars

\* The store of several profiles on one day: every operation of the store,
\* on the pairs below, with at most MaxApiStored tasks stored and the ids of
\* ApiIds.
ApiIds == {"a", "b"}

Next ==
    \/ \E pair \in Pairs : Load(pair[1], pair[2])
    \/ \E pair \in Pairs, tasks \in SaveLists :
            /\ IdsOf(tasks) \subseteq ApiIds
            /\ Save(tasks, pair[1], pair[2])
            /\ Stored(storage') <= MaxApiStored
    \/ \E pair \in Pairs, status \in Statuses :
            /\ Create(status, pair[1], pair[2])
            /\ StoredIds(storage') \subseteq ApiIds
            /\ Stored(storage') <= MaxApiStored
    \/ \E pair \in Pairs, task \in Task :
            task.id \in ApiIds /\ Update(task, pair[1], pair[2])
    \/ \E pair \in Pairs, id \in ApiIds : Delete(id, pair[1], pair[2])
    \/ \E profile \in Profiles : Rollover(profile)

Spec == Init /\ [][Next]_vars

----------------------------------------------------------------------------
(* Reading a store, for the statements below.  These definitions state the  *)
(* persisted key layout and the order of the dates on their own, so that    *)
(* the statements do not lean on the operators they are about.              *)

\* The persisted key of a partition.
PartitionKey(date, profile) ==
    IF profile = "Work"
    THEN "tasks_" \o date
    ELSE "tasks_" \o profile \o "_" \o date

\* The list a partition holds: empty if the key is absent or unparseable.
ListOf(store, key) ==
    IF key \in DOMAIN store /\ store[key].kind = "json"
    THEN store[key].tasks
    ELSE <<>>

PartitionOf(store, date, profile) == ListOf(store, PartitionKey(date, profile))

DayNum(d) == CASE d = D1 -> 1 [] d = D2 -> 2 [] d = D3 -> 3

PastDates(now) == {d \in Dates : DayNum(d) < DayNum(now)}
FutureDates(now) == {d \in Dates : DayNum(d) > DayNum(now)}

Elems(seq) == {seq[i] : i \in 1..Len(seq)}

\* How many tasks of a list carry an id; how often a list holds a task.
CountId(tasks, id) == Cardinality({i \in 1..Len(tasks) : tasks[i].id = id})
CountTask(tasks, t) == Cardinality({i \in 1..Len(tasks) : tasks[i] = t})

IsPrefix(a, b) == Len(a) <= Len(b) /\ SubSeq(b, 1, Len(a)) = a

\* The same key with the same value, or absent, in both stores.
SameAt(s1, s2, key) ==
    /\ key \in DOMAIN s1 <=> key \in DOMAIN s2
    /\ key \in DOMAIN s1 => s1[key] = s2[key]

\* The unfinished tasks the past partitions of a profile hold.
PastUnfinished(store, profile, now) ==
    UNION {{t \in Elems(PartitionOf(store, d, profile)) : t.status # "done"} :
              d \in PastDates(now)}

\* How many unfinished tasks the past partitions of a profile hold.
PastUnfinishedCount(store, profile, now) ==
    LET n(d) == IF d \in PastDates(now)
                THEN LET p == PartitionOf(store, d, profile)
                     IN  Cardinality({i \in 1..Len(p) : p[i].status # "done"})
                ELSE 0
    IN  n(D1) + n(D2) + n(D3)

\* The step is a run of rollover(profile).
RolloverStep(profile) ==
    /\ last'.op = "rollover"
    /\ last'.profile = profile
    /\ Rollover(profile)

\* The store has just been left by a rollover, on the day it ran.
AfterRollover == last.op = "rollover" /\ last.date = today

----------------------------------------------------------------------------
(* Rollover.                                                               *)

\* C1: a second rollover of the same profile, run right after the first,
\* returns 0 and leaves every key of the store as the first run left it.
RolloverIdempotent ==
    AfterRollover =>
        \A order \in Orders(ScannedKeys(storage, last.profile, today)) :
            LET r == MigrateTasksToToday(storage, last.profile, today, order)
            IN  r.ret = 0 /\ r.store = storage

\* C1: a rollover that collected tasks has run.
RolloverCollected == AfterRollover /\ last.ret > 0

\* C2: if an unfinished task of a past partition has the id of the one task
\* of that id in today's partition, then after rollover today's partition
\* still holds exactly one task of that id, the one it held before.
NoDuplicateOfTodaysTask ==
    [][\A p \in Profiles : RolloverStep(p) =>
        LET before == PartitionOf(storage, today, p)
            after == PartitionOf(storage', today, p)
        IN  \A t \in PastUnfinished(storage, p, today) :
                CountId(before, t.id) = 1 =>
                    /\ CountId(after, t.id) = 1
                    /\ \A i \in 1..Len(before) :
                          before[i].id = t.id => before[i] \in Elems(after)
      ]_vars

\* C2: a rollover collected tasks and appended none: each of them had the id
\* of a task of today's partition.
RolloverSkippedAll == AfterRollover /\ last.ret > 0 /\ last.exports = 0

\* C3: from a store in which every partition has pairwise different ids,
\* rollover leaves today's partition with pairwise different ids.
TodayProperSetAfterRollover ==
    [][\A p \in Profiles : RolloverStep(p) =>
        ((\A k \in DOMAIN storage : UniqueIds(ListOf(storage, k)))
            => UniqueIds(PartitionOf(storage', today, p)))
      ]_vars

\* C4: rollover removes every unfinished task from every past partition of
\* the profile and today's partition then holds a task of its id; the done
\* tasks stay where they are, in their order, and today's partition holds
\* each of them as often as before.
MovesExactlyUnfinished ==
    [][\A p \in Profiles : RolloverStep(p) =>
        \A d \in PastDates(today) :
            LET old == PartitionOf(storage, d, p)
                new == PartitionOf(storage', d, p)
                todayBefore == PartitionOf(storage, today, p)
                todayAfter == PartitionOf(storage', today, p)
            IN  /\ new = SelectSeq(old, LAMBDA t : t.status = "done")
                /\ \A t \in Elems(old) :
                      t.status # "done" => t.id \in IdsOf(todayAfter)
                /\ \A t \in Elems(old) :
                      t.status = "done" =>
                          CountTask(todayAfter, t) = CountTask(todayBefore, t)
      ]_vars

\* C4: a rollover rewrote a past partition that still holds (done) tasks.
RolloverLeftDoneBehind ==
    /\ AfterRollover
    /\ \E d \in PastDates(today) :
          /\ PartitionKey(d, last.profile) \in Elems(last.writes)
          /\ PartitionOf(storage, d, last.profile) # <<>>

\* C5: rollover leaves the future partitions of the profile as they are,
\* keeps the tasks of today's partition as a prefix of its new list, appends
\* only unfinished tasks of past partitions, and leaves today's key alone
\* when it appends nothing.
OnlyPastIsSource ==
    [][\A p \in Profiles : RolloverStep(p) =>
        LET before == PartitionOf(storage, today, p)
            after == PartitionOf(storage', today, p)
        IN  /\ \A d \in FutureDates(today) :
                  SameAt(storage, storage', PartitionKey(d, p))
            /\ IsPrefix(before, after)
            /\ \A i \in (Len(before) + 1)..Len(after) :
                  after[i] \in PastUnfinished(storage, p, today)
            /\ Len(after) = Len(before) =>
                  SameAt(storage, storage', PartitionKey(today, p))
      ]_vars

\* C5: a rollover appended to a today's partition that held a done task,
\* while a future partition held tasks.
RolloverAppendedToToday ==
    /\ AfterRollover
    /\ last.exports = 1
    /\ Len(PartitionOf(storage, today, last.profile)) >= 2
    /\ PartitionOf(storage, today, last.profile)[1].status = "done"
    /\ \E d \in FutureDates(today) : PartitionOf(storage, d, last.profile) # <<>>

\* C7: the count rollover returns is the number of tasks it appended to
\* today's partition.
CountIsNumberAppended ==
    [][\A p \in Profiles : RolloverStep(p) =>
        last'.ret = Len(PartitionOf(storage', today, p))
                        - Len(PartitionOf(storage, today, p))
      ]_vars

\* C8: every key rollover writes holds another value afterwards; a past
\* partition without unfinished tasks is not written; today's key is not
\* written and nothing is exported when nothing is appended.
RewritesOnlyChanged ==
    [][\A p \in Profiles : RolloverStep(p) =>
        /\ \A k \in Elems(last'.writes) : ~SameAt(storage, storage', k)
        /\ \A d \in PastDates(today) :
              (\A t \in Elems(PartitionOf(storage, d, p)) : t.status = "done")
                  => PartitionKey(d, p) \notin Elems(last'.writes)
        /\ Len(PartitionOf(storage', today, p)) = Len(PartitionOf(storage, today, p))
              => /\ PartitionKey(today, p) \notin Elems(last'.writes)
                 /\ last'.exports = 0
      ]_vars

\* C8: a rollover rewrote the partition of the second day and left the
\* partition of the first day, which holds tasks, unwritten.
RolloverSkippedDonePartition ==
    /\ AfterRollover
    /\ today = D3
    /\ PartitionOf(storage, D1, last.profile) # <<>>
    /\ PartitionKey(D1, last.profile) \notin Elems(last.writes)
    /\ PartitionKey(D2, last.profile) \in Elems(last.writes)

\* C6: rollover of a profile leaves every partition of every other profile
\* as it is and writes none of their keys; what it appends to the profile's
\* today's partition are unfinished tasks of the profile's own past
\* partitions, and it counts no more tasks than those partitions hold.
RolloverStaysInProfile ==
    [][\A p \in Profiles : RolloverStep(p) =>
        /\ \A q \in Profiles \ {p}, d \in Dates :
              /\ SameAt(storage, storage', PartitionKey(d, q))
              /\ PartitionKey(d, q) \notin Elems(last'.writes)
        /\ LET before == PartitionOf(storage, today, p)
               after == PartitionOf(storage', today, p)
           IN  \A i \in (Len(before) + 1)..Len(after) :
                   after[i] \in PastUnfinished(storage, p, today)
        /\ last'.ret <= PastUnfinishedCount(storage, p, today)
      ]_vars

\* C6: a rollover of the profile 1st collected tasks while a past partition
\* of the profile 1st_1 held an unfinished task.
RolloverBesideOtherProfile ==
    /\ AfterRollover
    /\ last.profile = "1st"
    /\ last.ret > 0
    /\ \E t \in Elems(PartitionOf(storage, D1, "1st_1")) : t.status # "done"

----------------------------------------------------------------------------
(* Partitions, create and load.                                            *)

\* What load(date, profile) returns from a store.
Loaded(store, date, profile) == GetTasks(store, date, profile, today).ret

AllPairs == Dates \X Profiles

\* Different (date, profile) pairs have different keys.
KeysDistinct ==
    \A a, b \in AllPairs :
        a # b => GetTaskKey(a[1], a[2]) # GetTaskKey(b[1], b[2])

\* The step is a create, update, delete or save on the pair.
WriteStep(date, profile) ==
    \/ /\ last'.op = "create"
       /\ \E status \in Statuses : Create(status, date, profile)
    \/ /\ last'.op = "update"
       /\ \E task \in Task : Update(task, date, profile)
    \/ /\ last'.op = "delete"
       /\ \E id \in Ids : Delete(id, date, profile)
    \/ /\ last'.op = "save"
       /\ \E tasks \in SaveLists : Save(tasks, date, profile)

\* C9: different (date, profile) pairs have different keys, and a create,
\* update, delete or save on one pair leaves what load returns for every
\* other pair as it was.
PartitionsIsolated ==
    [][/\ KeysDistinct
       /\ \A a \in Pairs : WriteStep(a[1], a[2]) =>
              \A b \in AllPairs \ {a} :
                  Loaded(storage', b[1], b[2]) = Loaded(storage, b[1], b[2])
      ]_vars

\* C9: after a write, the default profile and the profile 1st both hold
\* tasks under the same date.
TwoProfilesHoldTasks ==
    /\ last.op \in {"create", "update", "delete", "save"}
    /\ PartitionOf(storage, D1, "Work") # <<>>
    /\ PartitionOf(storage, D1, "1st") # <<>>

\* C10, as claimed: after create(t, date, profile), load returns the list
\* stored under the partition's key before, with t appended.
CreateThenLoadStored ==
    [][\A a \in Pairs, status \in Statuses :
        (last'.op = "create" /\ Create(status, a[1], a[2])) =>
            Loaded(storage', a[1], a[2]) =
                Append(PartitionOf(storage, a[1], a[2]),
                       MkTask(FreshId(storage), status))
      ]_vars

\* C10, amended: after create(t, date, profile), load returns the list that
\* load returned before the create, with t appended; that list is the one
\* stored under the partition's key, unless the legacy record is present and
\* the pair is today's partition of the default profile.
CreateThenLoad ==
    [][\A a \in Pairs, status \in Statuses :
        (last'.op = "create" /\ Create(status, a[1], a[2])) =>
            /\ Loaded(storage', a[1], a[2]) =
                  Append(Loaded(storage, a[1], a[2]),
                         MkTask(FreshId(storage), status))
            /\ ~("tasks" \in DOMAIN storage /\ a = <<today, "Work">>) =>
                  Loaded(storage, a[1], a[2]) = PartitionOf(storage, a[1], a[2])
      ]_vars

\* C10: a create has appended to a partition that held a task.
CreatedSecondTask ==
    /\ last.op = "create"
    /\ \E a \in Pairs : Len(PartitionOf(storage, a[1], a[2])) = 2

----------------------------------------------------------------------------
(* Load, update and delete.                                                *)

\* The step is load(date, profile).
LoadStep(date, profile) == last'.op = "load" /\ Load(date, profile)

\* The key is absent from the store, or its value is not parseable.
AbsentOrUnparseable(store, key) ==
    key \notin DOMAIN store \/ store[key].kind # "json"

\* C16: a load of the default profile that finds the legacy key moves its
\* value under today's default key and removes the legacy key, and returns
\* the legacy tasks if it is a load of today; the legacy key never comes
\* back, and a load without it writes nothing.
LegacyMigratesOnce ==
    [][/\ \A a \in Pairs :
              (LoadStep(a[1], a[2]) /\ a[2] = "Work" /\ "tasks" \in DOMAIN storage)
              => /\ "tasks" \notin DOMAIN storage'
                 /\ PartitionKey(today, "Work") \in DOMAIN storage'
                 /\ storage'[PartitionKey(today, "Work")] = storage["tasks"]
                 /\ \A k \in DOMAIN storage' \ {PartitionKey(today, "Work")} :
                        SameAt(storage, storage', k)
                 /\ a[1] = today =>
                        GetTasks(storage, a[1], a[2], today).ret
                            = ListOf(storage, "tasks")
       /\ \A a \in Pairs :
              (LoadStep(a[1], a[2]) /\ "tasks" \notin DOMAIN storage)
              => /\ storage' = storage
                 /\ GetTasks(storage, a[1], a[2], today).writes = <<>>
       /\ "tasks" \notin DOMAIN storage => "tasks" \notin DOMAIN storage'
      ]_vars

\* C16: a load has left nothing in the store but the unparseable legacy
\* value, under today's default key.
LegacyMovedUnderToday ==
    /\ last.op = "load"
    /\ DOMAIN storage = {PartitionKey(today, "Work")}
    /\ storage[PartitionKey(today, "Work")].kind = "garbage"

\* C17, as claimed: a load of a partition whose key is absent or whose value
\* is not parseable returns the empty list and leaves the store unchanged.
LoadOfAbsentIsEmpty ==
    [][\A a \in Pairs :
        (LoadStep(a[1], a[2])
            /\ AbsentOrUnparseable(storage, PartitionKey(a[1], a[2])))
        => /\ GetTasks(storage, a[1], a[2], today).ret = <<>>
           /\ storage' = storage
      ]_vars

\* C17, amended: the same, unless the load is one of the default profile
\* that finds the legacy key: that load moves the legacy value under today's
\* key and returns the legacy tasks for today, the empty list for another
\* date whose key is absent or unparseable.
LoadOfAbsentIsEmptyUnlessLegacy ==
    [][\A a \in Pairs :
        (LoadStep(a[1], a[2])
            /\ AbsentOrUnparseable(storage, PartitionKey(a[1], a[2])))
        => LET ret == GetTasks(storage, a[1], a[2], today).ret
           IN  IF a[2] = "Work" /\ "tasks" \in DOMAIN storage
               THEN /\ ret = IF a[1] = today
                             THEN ListOf(storage, "tasks")
                             ELSE <<>>
                    /\ "tasks" \notin DOMAIN storage'
                    /\ storage'[PartitionKey(today, "Work")] = storage["tasks"]
               ELSE /\ ret = <<>>
                    /\ storage' = storage
      ]_vars

\* C17: a load has run on a store without the legacy key in which today's
\* default partition is unparseable and another partition holds tasks.
LoadedUnparseable ==
    /\ last.op = "load"
    /\ "tasks" \notin DOMAIN storage
    /\ PartitionKey(today, "Work") \in DOMAIN storage
    /\ storage[PartitionKey(today, "Work")].kind = "garbage"
    /\ PartitionOf(storage, D1, "1st") # <<>>

\* C18: an update with an id the partition does not hold writes nothing and
\* exports nothing; with an id it holds, the task of that id is replaced
\* where it stands and every other position keeps its task.
UpdateReplacesInPlace ==
    [][\A a \in Pairs, task \in Task :
        (last'.op = "update" /\ Update(task, a[1], a[2]))
        => LET before == PartitionOf(storage, a[1], a[2])
               after == PartitionOf(storage', a[1], a[2])
               r == UpdateTask(storage, task, a[1], a[2], today)
           IN  IF task.id \in IdsOf(before)
               THEN /\ Len(after) = Len(before)
                    /\ \A i \in 1..Len(before) :
                          after[i] = IF before[i].id = task.id
                                     THEN task
                                     ELSE before[i]
                    /\ \A k \in DOMAIN storage \ {PartitionKey(a[1], a[2])} :
                          SameAt(storage, storage', k)
               ELSE /\ storage' = storage
                    /\ r.writes = <<>>
                    /\ r.exports = 0
      ]_vars

\* C18: an update has changed the status of the second task of a partition.
UpdatedSecondTask ==
    /\ last.op = "update"
    /\ \E a \in Pairs :
          LET p == PartitionOf(storage, a[1], a[2])
          IN  Len(p) = 2 /\ p[1].status = "todo" /\ p[2].status = "done"

\* C19: a delete writes the partition, with the list it loaded less every
\* task of the id, the others in their order; with an id the list does not
\* hold, the list is written as it was.
DeleteAlwaysWrites ==
    [][\A a \in Pairs, id \in Ids :
        (last'.op = "delete" /\ Delete(id, a[1], a[2]))
        => LET key == PartitionKey(a[1], a[2])
               before == PartitionOf(storage, a[1], a[2])
               r == DeleteTask(storage, id, a[1], a[2], today)
           IN  /\ key \in DOMAIN storage'
               /\ storage'[key].kind = "json"
               /\ storage'[key].tasks = SelectSeq(before, LAMBDA t : t.id # id)
               /\ id \notin IdsOf(before) => storage'[key].tasks = before
               /\ r.writes = <<key>>
               /\ r.exports = 1
               /\ \A k \in DOMAIN storage \ {key} : SameAt(storage, storage', k)
      ]_vars

\* C19: a delete has written the empty list under a key while another
\* partition holds a task.
DeleteWroteEmptyList ==
    /\ last.op = "delete"
    /\ \E a, b \in Pairs :
          /\ PartitionKey(a[1], a[2]) \in DOMAIN storage
          /\ storage[PartitionKey(a[1], a[2])] = [kind |-> "json", tasks |-> <<>>]
          /\ PartitionOf(storage, b[1], b[2]) # <<>>

----------------------------------------------------------------------------
(* TaskListView.tsx: the list view of one date of the default profile.     *)
(* `view.tasks` is the state `tasks`; tasksRef.current is set to it by an   *)
(* effect after every render, so a handler that starts finds it equal to    *)
(* `tasks`.  The github refresh of loadTasks returns at once for tasks      *)
(* without a github field, which are the tasks of this model.               *)

\* A loadTasks call in flight: before its reads of the store, or holding the
\* list it has read and not yet set.
LoadStarted == [pc |-> "read", loaded |-> <<>>]

\* What a handler has done so far: the view and store it leaves and, in the
\* order of the code, the events "push" (a snapshot onto the undo stack) and
\* "write" (a write or removal of a key of the store).
Handling(v, store) ==
    [view |-> v, store |-> store, events |-> <<>>, writes |-> <<>>, exports |-> 0]

\* A snapshot that keeps the redo stack.  LinearHistory is tested against it.
PushToUndoStackKeepsRedo(h) ==
    [h EXCEPT !.view.undoStack = Append(@, h.view.tasks),
              !.events = Append(@, "push")]

\* pushToUndoStack()
PushToUndoStack(h) ==
    [h EXCEPT !.view.undoStack = Append(@, h.view.tasks),
              !.view.redoStack = <<>>,
              !.events = Append(@, "push")]

\* The handler awaits a store operation with result r.
Await(h, r) ==
    [h EXCEPT !.store = r.store,
              !.events = @ \o [i \in 1..Len(r.writes) |-> "write"],
              !.writes = @ \o r.writes,
              !.exports = @ + r.exports]

\* The handler calls loadTasks() and does not await it.
StartLoad(h) == [h EXCEPT !.view.loads = Append(@, LoadStarted)]

\* A handler that mutates the store first and takes the snapshot after.
\* SnapshotPrecedesMutation is tested against it.
HandleMutationSnapshotLast(v, store, r) ==
    StartLoad(PushToUndoStack(Await(Handling(v, store), r)))

\* handleCreateTaskWrapped, handleUpdateTaskWrapped, handleDeleteTaskWrapped:
\* snapshot, the awaited store operation (result r), loadTasks().
HandleMutation(v, store, r) ==
    StartLoad(Await(PushToUndoStack(Handling(v, store)), r))

\* syncDailyNote: runAppleScript fails or not; the failure is caught and
\* logged inside.
SyncDailyNote(scriptOk) ==
    [failed |-> ~scriptOk, settled |-> "resolved", logged |-> ~scriptOk]

\* A saveTasks that awaits the export and passes its failure on.
\* ExportFailureNeverAffectsSave is tested against it.
SaveSettlesAwaitingExport(note) ==
    IF note.failed THEN "rejected" ELSE "resolved"

\* saveTasks: the export is not awaited and carries a catch, so the promise
\* of saveTasks resolves once setItem has.
SaveSettles(note) == "resolved"

\* An undo that keeps the redo stack as it is.
\* UndoThenRedoRestores is tested against it.
HandleUndoKeepsRedo(v, store) ==
    LET previousTasks == v.undoStack[Len(v.undoStack)]
        newUndoStack == SubSeq(v.undoStack, 1, Len(v.undoStack) - 1)
        shown == [v EXCEPT !.undoStack = newUndoStack, !.tasks = previousTasks]
    IN  IF Len(v.undoStack) = 0
        THEN Handling(v, store)
        ELSE Await(Handling(shown, store),
                   SaveTasks(store, v.date, previousTasks, DEFAULT_PROFILE))

\* handleUndo()
HandleUndo(v, store) ==
    LET previousTasks == v.undoStack[Len(v.undoStack)]
        newUndoStack == SubSeq(v.undoStack, 1, Len(v.undoStack) - 1)
        shown == [v EXCEPT !.redoStack = Append(@, v.tasks),
                           !.undoStack = newUndoStack,
                           !.tasks = previousTasks]
    IN  IF Len(v.undoStack) = 0
        THEN Handling(v, store)
        ELSE Await(Handling(shown, store),
                   SaveTasks(store, v.date, previousTasks, DEFAULT_PROFILE))

\* A redo that saves an empty redo stack's "top" as the empty list.
\* EmptyStackIsNoOp is tested against it.
HandleRedoUnguarded(v, store) ==
    LET nextTasks == IF Len(v.redoStack) = 0
                     THEN <<>>
                     ELSE v.redoStack[Len(v.redoStack)]
        newRedoStack == SubSeq(v.redoStack, 1, Len(v.redoStack) - 1)
        shown == [v EXCEPT !.undoStack = Append(@, v.tasks),
                           !.redoStack = newRedoStack,
                           !.tasks = nextTasks]
    IN  Await(Handling(shown, store),
              SaveTasks(store, v.date, nextTasks, DEFAULT_PROFILE))

\* handleRedo()
HandleRedo(v, store) ==
    LET nextTasks == v.redoStack[Len(v.redoStack)]
        newRedoStack == SubSeq(v.redoStack, 1, Len(v.redoStack) - 1)
        shown == [v EXCEPT !.undoStack = Append(@, v.tasks),
                           !.redoStack = newRedoStack,
                           !.tasks = nextTasks]
    IN  IF Len(v.redoStack) = 0
        THEN Handling(v, store)
        ELSE Await(Handling(shown, store),
                   SaveTasks(store, v.date, nextTasks, DEFAULT_PROFILE))

\* No mutation stands to be undone.
NoMutation == [set |-> FALSE, tasks |-> <<>>, cleared |-> FALSE]

\* What `last` holds of a step of the view: the handler, the handler of the
\* step before, its events, writes and exports; for an undo the list shown
\* and the list stored before it;
\* the list stored before the most recent mutation that no undo or redo has
\* followed, and whether that mutation found snapshots on the redo stack; for a save of undo or redo, whether the export failed and how
\* the promise of saveTasks settled.
ViewRecord(op, h, shown, stored, pre, note) ==
    [op |-> op, prev |-> last.op, events |-> h.events, writes |-> h.writes, exports |-> h.exports,
     shown |-> shown, stored |-> stored, pre |-> pre,
     exportFailed |-> h.exports > 0 /\ note.failed,
     settled |-> SaveSettles(note)]

\* The list under the view's key.
ViewStored(store) == ReadList(store, GetTaskKey(view.date, DEFAULT_PROFILE))

\* The ids the view has seen: uuidv4() gives none of them again.
RECURSIVE IdsOfLists(_)
IdsOfLists(lists) ==
    IF lists = <<>> THEN {}
    ELSE IdsOf(lists[1]) \cup IdsOfLists(SubSeq(lists, 2, Len(lists)))

ViewIds ==
    StoredIds(storage) \cup IdsOf(view.tasks) \cup IdsOfLists(view.undoStack)
        \cup IdsOfLists(view.redoStack)
        \cup IdsOfLists([i \in 1..Len(view.loads) |-> view.loads[i].loaded])

\* The view is mounted on a date, on a store as the first run finds it; its
\* effect has called loadTasks().
InitView ==
    /\ storage \in {EmptyStore} \cup
                   {SetItem(EmptyStore, LEGACY_KEY, v) : v \in LegacyValues}
    /\ today = D2
    /\ view \in {[NoView EXCEPT !.date = d, !.loads = <<LoadStarted>>] :
                    d \in {D1, D2}}
    /\ last = [op |-> "none", prev |-> "none", events |-> <<>>,
               writes |-> <<>>, exports |-> 0, shown |-> <<>>, stored |-> <<>>,
               pre |-> NoMutation, exportFailed |-> FALSE, settled |-> "resolved"]

\* A step of the view with handling h.
ViewStep(op, h, shown, stored, pre, note) ==
    /\ storage' = h.store
    /\ view' = h.view
    /\ last' = ViewRecord(op, h, shown, stored, pre, note)
    /\ UNCHANGED today

\* A mutation may start: the bounds of the model.
MayMutate ==
    /\ Len(view.loads) < MaxLoads
    /\ Len(view.undoStack) < MaxHistory

Mutated(op, r) ==
    ViewStep(op, HandleMutation(view, storage, r), <<>>, <<>>,
             [set |-> TRUE, tasks |-> ViewStored(storage),
              cleared |-> view.redoStack # <<>>],
             SyncDailyNote(TRUE))

\* handleCreateTaskWrapped(values): the task is new, with status "todo".
CreateWrapped ==
    /\ MayMutate
    /\ ApiIds \ ViewIds # {}
    /\ LET id == CHOOSE i \in ApiIds \ ViewIds :
                    \A j \in ApiIds \ ViewIds : ~StrLess(j, i)
           r == CreateTask(storage, MkTask(id, "todo"), view.date,
                           DEFAULT_PROFILE, today)
       IN  /\ Len(ReadList(r.store, GetTaskKey(view.date, DEFAULT_PROFILE)))
                  <= MaxViewTasks
           /\ Mutated("create", r)

\* handleUpdateTaskWrapped({...task, status}) on the i-th task shown.
UpdateWrapped(i, status) ==
    /\ MayMutate
    /\ i \in 1..Len(view.tasks)
    /\ Mutated("update",
               UpdateTask(storage, [view.tasks[i] EXCEPT !.status = status],
                          view.date, DEFAULT_PROFILE, today))

\* handleDeleteTaskWrapped(task.id) on the i-th task shown.
DeleteWrapped(i) ==
    /\ MayMutate
    /\ i \in 1..Len(view.tasks)
    /\ Mutated("delete",
               DeleteTask(storage, view.tasks[i].id, view.date,
                          DEFAULT_PROFILE, today))

\* handleUndo(); the runAppleScript of the export of its save succeeds or
\* fails.
Undo(scriptOk) ==
    ViewStep("undo", HandleUndo(view, storage), view.tasks,
             ViewStored(storage), NoMutation, SyncDailyNote(scriptOk))

\* handleRedo()
Redo(scriptOk) ==
    ViewStep("redo", HandleRedo(view, storage), <<>>, <<>>,
             IF view.redoStack = <<>> THEN last.pre ELSE NoMutation,
             SyncDailyNote(scriptOk))

\* loadTasks(), up to setTasks: migrateTasksToToday() if the view shows
\* today, then getTasks(date).
LoadTasksRead(i) ==
    /\ i \in 1..Len(view.loads)
    /\ view.loads[i].pc = "read"
    /\ \E order \in Orders(ScannedKeys(storage, DEFAULT_PROFILE, today)) :
          LET m == IF view.date = today
                   THEN MigrateTasksToToday(storage, DEFAULT_PROFILE, today, order)
                   ELSE [store |-> storage, writes |-> <<>>, exports |-> 0]
              g == GetTasks(m.store, view.date, DEFAULT_PROFILE, today)
              h == Await(Await(Handling(view, storage), m), g)
          IN  ViewStep("loadRead",
                       [h EXCEPT !.view.loads[i] = [pc |-> "set", loaded |-> g.ret]],
                       <<>>, <<>>, last.pre, SyncDailyNote(TRUE))

RemoveAt(seq, i) == SubSeq(seq, 1, i - 1) \o SubSeq(seq, i + 1, Len(seq))

\* loadTasks(): setTasks(loadedTasks)
LoadTasksSet(i) ==
    /\ i \in 1..Len(view.loads)
    /\ view.loads[i].pc = "set"
    /\ ViewStep("loadSet",
                Handling([view EXCEPT !.tasks = view.loads[i].loaded,
                                      !.loads = RemoveAt(@, i)], storage),
                <<>>, <<>>, last.pre, SyncDailyNote(TRUE))

NextView ==
    \/ CreateWrapped
    \/ \E i \in 1..MaxViewTasks, status \in Statuses : UpdateWrapped(i, status)
    \/ \E i \in 1..MaxViewTasks : DeleteWrapped(i)
    \/ \E scriptOk \in BOOLEAN : Undo(scriptOk)
    \/ \E scriptOk \in BOOLEAN : Redo(scriptOk)
    \/ \E i \in 1..MaxLoads : LoadTasksRead(i)
    \/ \E i \in 1..MaxLoads : LoadTasksSet(i)

SpecView == InitView /\ [][NextView]_vars

----------------------------------------------------------------------------
(* Undo and redo.                                                          *)

Mutations == {"create", "update", "delete"}

Top(stack) == stack[Len(stack)]
Front(stack) == SubSeq(stack, 1, Len(stack) - 1)

\* The list the store holds under the key of the view's date.
ViewPartition(store) == PartitionOf(store, view.date, "Work")

\* C11: a redo that directly follows an undo of a non-empty undo stack
\* leaves the list shown and the list stored equal to the list shown before
\* the undo, and the undo stack as it was before the undo.
UndoThenRedoRestores ==
    [][(last.op = "undo" /\ last.writes # <<>> /\ last'.op = "redo")
        => /\ view'.tasks = last.shown
           /\ ViewPartition(storage') = last.shown
           /\ Len(view'.undoStack) = Len(view.undoStack) + 1
           /\ Top(view'.undoStack) = view.tasks
           /\ view'.redoStack = Front(view.redoStack)
      ]_vars

\* C11: a redo has directly followed an undo and has restored a task.
RedoneAfterUndo ==
    /\ last.op = "redo"
    /\ last.prev = "undo"
    /\ last.writes # <<>>
    /\ view.tasks # <<>>

\* C12: an undo of a non-empty undo stack, with no undo or redo since the
\* most recent mutation, pops the top snapshot, pushes the list shown onto
\* the redo stack, and leaves the list shown and the list stored equal to
\* the list stored before that mutation.
UndoRestoresPreMutation ==
    [][(last'.op = "undo" /\ view.undoStack # <<>> /\ last.pre.set)
        => /\ view'.undoStack = Front(view.undoStack)
           /\ view'.redoStack = Append(view.redoStack, view.tasks)
           /\ view'.tasks = last.pre.tasks
           /\ ViewPartition(storage') = last.pre.tasks
      ]_vars

\* C13: a create, update or delete adds the list shown to the top of the
\* undo stack and empties the redo stack; as long as no undo has followed
\* it, the redo stack is empty and a redo changes neither view nor store.
LinearHistory ==
    [][/\ last'.op \in Mutations
          => /\ view'.undoStack = Append(view.undoStack, view.tasks)
             /\ view'.redoStack = <<>>
       /\ last.pre.set => view.redoStack = <<>>
       /\ (last'.op = "redo" /\ last.pre.set)
          => /\ view' = view
             /\ storage' = storage
             /\ last'.writes = <<>>
      ]_vars

\* C13: a redo has directly followed a mutation that came after an undo and
\* cleared the redo stack, and has done nothing.
RedoAfterMutationDidNothing ==
    /\ last.op = "redo"
    /\ last.prev \in Mutations
    /\ last.pre.cleared
    /\ last.writes = <<>>
    /\ view.undoStack # <<>>

\* C14: an undo on an empty undo stack and a redo on an empty redo stack
\* change neither the list shown, nor the stacks, nor the store, and write
\* and export nothing.
EmptyStackIsNoOp ==
    [][/\ (last'.op = "undo" /\ view.undoStack = <<>>)
          => /\ view' = view
             /\ storage' = storage
             /\ last'.writes = <<>>
             /\ last'.exports = 0
       /\ (last'.op = "redo" /\ view.redoStack = <<>>)
          => /\ view' = view
             /\ storage' = storage
             /\ last'.writes = <<>>
             /\ last'.exports = 0
      ]_vars

\* C14: a redo on an empty redo stack has run while the view showed a task
\* and the undo stack held a snapshot.
RedoOnEmptyStack ==
    /\ last.op = "redo"
    /\ last.writes = <<>>
    /\ view.redoStack = <<>>
    /\ view.tasks # <<>>
    /\ view.undoStack # <<>>

\* C15: in a create, update or delete of the view the one push onto the
\* undo stack comes before every write to the store, and what it pushes is
\* the list shown before the mutation.
SnapshotPrecedesMutation ==
    [][last'.op \in Mutations
        => /\ last'.events # <<>>
           /\ last'.events[1] = "push"
           /\ \A i \in 2..Len(last'.events) : last'.events[i] = "write"
           /\ Len(view'.undoStack) = Len(view.undoStack) + 1
           /\ Top(view'.undoStack) = view.tasks
      ]_vars

\* C15: an update has pushed a snapshot that holds a task and then written
\* the store.
UpdateAfterSnapshot ==
    /\ last.op = "update"
    /\ Len(last.events) >= 2
    /\ view.undoStack # <<>>
    /\ Top(view.undoStack) # <<>>

\* C20: when the export of a save of undo or redo has failed, the promise of
\* saveTasks has resolved, the partition holds the serialized list that was
\* saved, and the export was fired once.
ExportFailureNeverAffectsSave ==
    (last.op \in {"undo", "redo"} /\ last.exportFailed)
        => /\ last.settled = "resolved"
           /\ last.exports = 1
           /\ last.writes = <<PartitionKey(view.date, "Work")>>
           /\ PartitionKey(view.date, "Work") \in DOMAIN storage
           /\ storage[PartitionKey(view.date, "Work")]
                  = [kind |-> "json", tasks |-> view.tasks]

\* C20: the export of an undo's save of a list that holds a task has failed.
ExportOfUndoFailed ==
    /\ last.op = "undo"
    /\ last.exportFailed
    /\ view.tasks # <<>>

\* ---------------------------------------------------------------------
\* The profile directory
\* ---------------------------------------------------------------------

PROFILES_KEY == "profiles"

\* getProfiles returning whatever list the record holds.
GetProfilesAnyList(store) ==
    IF ~Has(store, PROFILES_KEY) \/ ~Truthy(store[PROFILES_KEY])
    THEN <<DEFAULT_PROFILE>>
    ELSE LET p == Parse(store[PROFILES_KEY])
         IN  IF ~p.ok THEN <<DEFAULT_PROFILE>> ELSE p.tasks

\* getProfiles: the stored names, or the default profile alone when the
\* record is absent, does not parse or holds no name.
GetProfiles(store) ==
    IF ~Has(store, PROFILES_KEY) \/ ~Truthy(store[PROFILES_KEY])
    THEN <<DEFAULT_PROFILE>>
    ELSE LET p == Parse(store[PROFILES_KEY])
         IN  IF ~p.ok THEN <<DEFAULT_PROFILE>>
             ELSE IF Len(p.tasks) > 0 THEN p.tasks ELSE <<DEFAULT_PROFILE>>

SaveProfiles(store, profiles) ==
    SetItem(store, PROFILES_KEY, Stringify(profiles))

\* createProfile pushing the name whether it is listed or not.
CreateProfileAlwaysPushes(store, name) ==
    LET profiles == GetProfiles(store)
    IN  [store |-> SaveProfiles(store, Append(profiles, name)), ret |-> 0,
         writes |-> <<PROFILES_KEY>>, exports |-> 0]

\* createProfile(name)
CreateProfile(store, name) ==
    LET profiles == GetProfiles(store)
    IN  IF name \notin Elems(profiles)
        THEN [store |-> SaveProfiles(store, Append(profiles, name)), ret |-> 0,
              writes |-> <<PROFILES_KEY>>, exports |-> 0]
        ELSE [store |-> store, ret |-> 0, writes |-> <<>>, exports |-> 0]

\* deleteProfile removing the profile's partitions with its name.
DeleteProfileWithTasks(store, name) ==
    IF name = DEFAULT_PROFILE
    THEN [store |-> store, ret |-> 0, writes |-> <<>>, exports |-> 0]
    ELSE LET profiles == GetProfiles(store)
             kept == SelectSeq(profiles, LAMBDA p : p # name)
             left == {k \in DOMAIN store :
                         ~StartsWith(k, TASKS_KEY_PREFIX \o name \o "_")}
         IN  [store |-> SaveProfiles([k \in left |-> store[k]], kept),
              ret |-> 0, writes |-> <<PROFILES_KEY>>, exports |-> 0]

\* deleteProfile without the exemption of the default profile.
DeleteProfileAnyName(store, name) ==
    LET profiles == GetProfiles(store)
        kept == SelectSeq(profiles, LAMBDA p : p # name)
    IN  [store |-> SaveProfiles(store, kept), ret |-> 0,
         writes |-> <<PROFILES_KEY>>, exports |-> 0]

\* deleteProfile(name)
DeleteProfile(store, name) ==
    IF name = DEFAULT_PROFILE
    THEN [store |-> store, ret |-> 0, writes |-> <<>>, exports |-> 0]
    ELSE LET profiles == GetProfiles(store)
             kept == SelectSeq(profiles, LAMBDA p : p # name)
         IN  [store |-> SaveProfiles(store, kept), ret |-> 0,
              writes |-> <<PROFILES_KEY>>, exports |-> 0]

\* The records the directory key of a store holds before the first
\* createProfile, or after a damaged write: none, text that is no JSON,
\* an empty list.
DirectoryValues == {Garbage, Stringify(<<>>)}

InitProfiles ==
    /\ storage \in {EmptyStore} \cup
                   {SetItem(EmptyStore, PROFILES_KEY, v) : v \in DirectoryValues}
    /\ today = D2
    /\ last = Record("none", "", "", Quiet)
    /\ view = NoView

\* getProfiles(), as the profile dropdown calls it.
ListProfiles ==
    /\ last' = Record("list", "", "",
                      [ret |-> GetProfiles(storage), writes |-> <<>>,
                       exports |-> 0])
    /\ UNCHANGED <<storage, today, view>>

\* createProfile(name), as CreateProfileForm calls it.
CreateProfileStep(name) ==
    LET r == CreateProfile(storage, name)
    IN  /\ storage' = r.store
        /\ last' = Record("createProfile", name, "", r)
        /\ UNCHANGED <<today, view>>

\* deleteProfile(name)
DeleteProfileStep(name) ==
    LET r == DeleteProfile(storage, name)
    IN  /\ storage' = r.store
        /\ last' = Record("deleteProfile", name, "", r)
        /\ UNCHANGED <<today, view>>

\* saveTasks and getTasks on the partitions of one date, under any profile
\* name, listed or not.
SaveUnder(tasks, profile) ==
    LET r == SaveTasks(storage, D1, tasks, profile)
    IN  /\ storage' = r.store
        /\ last' = Record("save", profile, D1, r)
        /\ UNCHANGED <<today, view>>

LoadUnder(profile) ==
    LET r == GetTasks(storage, D1, profile, today)
    IN  /\ storage' = r.store
        /\ last' = Record("load", profile, D1, r)
        /\ UNCHANGED <<today, view>>

NextProfiles ==
    \/ ListProfiles
    \/ \E name \in Profiles : CreateProfileStep(name)
    \/ \E name \in Profiles : DeleteProfileStep(name)
    \/ \E tasks \in SaveLists, profile \in Profiles : SaveUnder(tasks, profile)
    \/ \E profile \in Profiles : LoadUnder(profile)

SpecProfiles == InitProfiles /\ [][NextProfiles]_vars

\* The names the directory record holds: none if the record is absent,
\* is no JSON or is the empty list.
StoredNames(store) == ListOf(store, PROFILES_KEY)

\* The keys of the task partitions: every key but the directory's.
TaskKeys(store) == DOMAIN store \ {PROFILES_KEY}

NoNameTwice(names) ==
    \A i, j \in 1..Len(names) : names[i] = names[j] => i = j

\* C23: list() returns the stored profile names, and the singleton list of
\* the default profile whenever the directory key is absent, holds
\* unparseable JSON, or holds an empty list.
ListReturnsStoredOrDefault ==
    last.op = "list" =>
        last.ret = IF StoredNames(storage) = <<>>
                   THEN <<"Work">>
                   ELSE StoredNames(storage)

ListedUnparseableDirectory ==
    /\ last.op = "list"
    /\ PROFILES_KEY \in DOMAIN storage
    /\ storage[PROFILES_KEY].kind = "garbage"
    /\ last.ret = <<"Work">>

\* C24: starting from an empty directory, no sequence of create(name) and
\* delete(name) makes the profile list hold a name twice; create of a name
\* already listed changes nothing, and create of a new name appends it
\* after the existing names, which keep their order.
CreateProfileHasSetSemantics ==
    [][/\ NoNameTwice(GetProfiles(storage'))
       /\ last'.op = "createProfile" =>
            IF last'.profile \in Elems(GetProfiles(storage))
            THEN storage' = storage
            ELSE GetProfiles(storage') =
                     Append(GetProfiles(storage), last'.profile)]_vars

CreatedSecondProfile ==
    /\ last.op = "createProfile"
    /\ last.writes # <<>>
    /\ Len(StoredNames(storage)) = 3

\* C25: delete(default profile) changes nothing; delete(name) of another
\* profile removes the name from the directory and leaves every task
\* partition key and value unchanged, so that after create(name) again
\* load(date, name) returns the tasks stored before the deletion.
DeleteProfileHidesOnly ==
    [][last'.op = "deleteProfile" =>
        LET name == last'.profile
        IN  IF name = "Work"
            THEN storage' = storage
            ELSE /\ name \notin Elems(GetProfiles(storage'))
                 /\ TaskKeys(storage') = TaskKeys(storage)
                 /\ \A k \in TaskKeys(storage) : storage'[k] = storage[k]
                 /\ \A d \in Dates :
                        Loaded(CreateProfile(storage', name).store, d, name)
                            = Loaded(storage, d, name)]_vars

DeletedProfileHoldingTasks ==
    /\ last.op = "deleteProfile"
    /\ last.profile = "1st"
    /\ last.writes # <<>>
    /\ PartitionOf(storage, D1, "1st") # <<>>
    /\ "1st" \notin Elems(StoredNames(storage))
    /\ "1st_1" \in Elems(StoredNames(storage))

\* ---------------------------------------------------------------------
\* Task status and GitHub metadata
\* ---------------------------------------------------------------------

MaxLinkedPRs == 2

TaskStatus ==
    {"todo", "in-progress", "paused", "done", "waiting-for-review",
     "ready-to-merge"}

\* The statuses the "Set Status" submenu of a task offers.
SetStatusChoices == {"paused", "in-progress", "todo", "done"}

PRReviewState == {"approved", "changes_requested", "pending_review"}

\* An optional reviewState that is absent.
NoReview == "none"

\* LinkedPR { number, state, reviewState? }: three pull requests an issue
\* may be linked to.
LinkedPR(number, state, reviewState) ==
    [number |-> number, state |-> state, reviewState |-> reviewState]

LinkedPRs ==
    {LinkedPR(1, "OPEN", "approved"), LinkedPR(2, "OPEN", NoReview),
     LinkedPR(3, "MERGED", "approved")}

\* The lists of linked pull requests, no number twice; the empty list
\* stands for an absent linkedPRs, as the comparison reads it.
LinkedPRLists ==
    UNION {{l \in [1..n -> LinkedPRs] :
               \A i, j \in 1..n : l[i].number = l[j].number => i = j} :
           n \in 0..MaxLinkedPRs}

\* GithubMetadata { state, type, linkedPRs?, reviewState? }; url, number,
\* repo, owner and title are those of the link and never differ.
GithubMetadata(type, state, reviewState, linkedPRs) ==
    [type |-> type, state |-> state, reviewState |-> reviewState,
     linkedPRs |-> linkedPRs]

\* A task without a link.
NoGithub == GithubMetadata("none", "", NoReview, <<>>)

\* What fetchGithubDetails returns for the link of a pull request and for
\* the link of an issue.
PullRequestMetadata ==
    {GithubMetadata("pull_request", s, r, <<>>) :
        s \in {"open", "changes_requested", "merged"},
        r \in PRReviewState \cup {NoReview}}

IssueMetadata ==
    {GithubMetadata("issue", "open", NoReview, l) : l \in LinkedPRLists}

FetchResults(type) ==
    IF type = "pull_request" THEN PullRequestMetadata ELSE IssueMetadata

\* fetchGithubDetails returned null.
NoDetails == GithubMetadata("null", "", NoReview, <<>>)

\* A task with a link, as the add-task form creates it.
MkLinkedTask(id, status, github) ==
    [id |-> id, status |-> status, title |-> "t", github |-> github]

\* handleToggleStatus of TaskItem and of TaskDetail
HandleToggleStatus(status) ==
    IF status = "done" THEN "todo"
    ELSE IF status = "todo" THEN "done"
    ELSE IF status = "paused" THEN "in-progress"
    ELSE IF status = "in-progress" THEN "done"
    ELSE "done"

\* The statuses reconciliation derives and may replace.
AutoDerivable ==
    {"todo", "in-progress", "waiting-for-review", "ready-to-merge"}

\* The linked item is a pull request that is neither merged nor closed.
OpenPullRequest(metadata) ==
    /\ metadata.type = "pull_request"
    /\ metadata.state \in {"open", "changes_requested"}

OpenLinkedPRs(metadata) ==
    {i \in 1..Len(metadata.linkedPRs) : metadata.linkedPRs[i].state = "OPEN"}

\* The decision procedure applied to every status.
DeriveStatusUnguarded(status, metadata) ==
    IF OpenPullRequest(metadata)
    THEN IF metadata.reviewState = "approved"
         THEN "ready-to-merge" ELSE "waiting-for-review"
    ELSE IF \E i \in OpenLinkedPRs(metadata) :
                metadata.linkedPRs[i].reviewState = "approved"
         THEN "ready-to-merge"
         ELSE IF OpenLinkedPRs(metadata) # {}
              THEN "waiting-for-review" ELSE status

\* The decision procedure reading the review of any linked pull request,
\* open or not.
DeriveStatusAnyLinked(status, metadata) ==
    IF status \notin AutoDerivable THEN status
    ELSE IF OpenPullRequest(metadata)
    THEN IF metadata.reviewState = "approved"
         THEN "ready-to-merge" ELSE "waiting-for-review"
    ELSE IF \E i \in 1..Len(metadata.linkedPRs) :
                metadata.linkedPRs[i].reviewState = "approved"
         THEN "ready-to-merge"
         ELSE IF OpenLinkedPRs(metadata) # {}
              THEN "waiting-for-review" ELSE status

\* The decision procedure taking a requested change for an approval.
DeriveStatusAnyReview(status, metadata) ==
    IF status \notin AutoDerivable THEN status
    ELSE IF OpenPullRequest(metadata)
    THEN IF metadata.reviewState \in {"approved", "changes_requested"}
         THEN "ready-to-merge" ELSE "waiting-for-review"
    ELSE DeriveStatusUnguarded(status, metadata)

\* The decision procedure of the reconciliation: the status a task gets
\* from freshly fetched metadata.
DeriveStatus(status, metadata) ==
    IF status \notin AutoDerivable THEN status
    ELSE IF OpenPullRequest(metadata)
    THEN IF metadata.reviewState = "approved"
         THEN "ready-to-merge" ELSE "waiting-for-review"
    ELSE IF metadata.type = "issue"
    THEN IF \E i \in OpenLinkedPRs(metadata) :
                metadata.linkedPRs[i].reviewState = "approved"
         THEN "ready-to-merge"
         ELSE IF OpenLinkedPRs(metadata) # {}
              THEN "waiting-for-review" ELSE status
    ELSE status

\* ---------------------------------------------------------------------
\* Reconciliation: refreshGithubStatuses
\* ---------------------------------------------------------------------

MaxRefreshes == 1

\* stateChanged
StateChanged(task, fresh) == fresh.state # task.github.state

\* linkedPRsChanged comparing the pull requests whatever their order.
LinkedPRsChangedAsSets(task, fresh) ==
    Elems(task.github.linkedPRs) # Elems(fresh.linkedPRs)

\* linkedPRsChanged: JSON.stringify(currentPRs) !== JSON.stringify(newPRs)
LinkedPRsChanged(task, fresh) == task.github.linkedPRs # fresh.linkedPRs

\* The fetched reviewState differs from the cached one.
ReviewStateChanged(task, fresh) ==
    fresh.reviewState # task.github.reviewState

\* The derived status differs from the cached one.
StatusChanged(task, fresh) ==
    DeriveStatus(task.status, fresh) # task.status

\* One task of the list refreshGithubStatuses was called with, once its
\* fetchGithubDetails has returned: whether it is persisted, and as what.
RefreshTask(task, fresh) ==
    IF fresh = NoDetails
    THEN [changed |-> FALSE, task |-> task]
    ELSE [changed |-> \/ StateChanged(task, fresh)
                      \/ LinkedPRsChanged(task, fresh)
                      \/ ReviewStateChanged(task, fresh)
                      \/ StatusChanged(task, fresh),
          task |-> [task EXCEPT !.github = fresh,
                                !.status = DeriveStatus(task.status, fresh)]]

\* The tasks of a list, linked or not.
TasksToRefreshUnfiltered(tasks) == 1..Len(tasks)

\* The tasks of a list that carry a link.
TasksToRefresh(tasks) ==
    {i \in 1..Len(tasks) : tasks[i].github # NoGithub}

\* refreshGithubStatuses(currentTasks) with its fetches under way.
RefreshStarted(currentTasks, cause) ==
    [updatedTasks |-> currentTasks, pending |-> TasksToRefresh(currentTasks),
     hasChanges |-> FALSE, cause |-> cause]

\* What a step of the view with reconciliation leaves in `last`.
NoTask == MkLinkedTask("", "", NoGithub)

ReconcileRecord(op, cause, cached, fresh, updated, changed, writes) ==
    [op |-> op, cause |-> cause, cached |-> cached, fresh |-> fresh,
     updated |-> updated, changed |-> changed, writes |-> writes]

\* The view of today's tasks of the default profile is mounted and its
\* first loadTasks is under way; the partition holds one task linked to a
\* pull request or to an issue.
InitReconcile ==
    /\ \E type \in {"pull_request", "issue"} :
         \E github \in FetchResults(type) :
            /\ github.state = "open"
            /\ github.reviewState = NoReview
            /\ github.linkedPRs = <<>>
            /\ storage = SetItem(EmptyStore, GetTaskKey(D2, DEFAULT_PROFILE),
                                 Stringify(<<MkLinkedTask("a", "todo", github)>>))
    /\ today = D2
    /\ view = [date |-> D2, tasks |-> <<>>, undoStack |-> <<>>,
               redoStack |-> <<>>,
               loads |-> <<[pc |-> "read", loaded |-> <<>>, cause |-> "mount"]>>,
               refreshes |-> <<>>]
    /\ last = ReconcileRecord("none", "", NoTask, NoDetails, NoTask, FALSE, <<>>)

\* loadTasks(): migrateTasksToToday, getTasks, setTasks, and the start of
\* refreshGithubStatuses(loadedTasks).
LoadTasks(i) ==
    /\ i \in 1..Len(view.loads)
    /\ Len(view.refreshes) < MaxRefreshes
    /\ \E order \in Orders(ScannedKeys(storage, DEFAULT_PROFILE, today)) :
          LET m == MigrateTasksToToday(storage, DEFAULT_PROFILE, today, order)
              g == GetTasks(m.store, view.date, DEFAULT_PROFILE, today)
              refresh == RefreshStarted(g.ret, view.loads[i].cause)
          IN  /\ storage' = g.store
              /\ view' = [view EXCEPT
                            !.tasks = g.ret,
                            !.loads = RemoveAt(@, i),
                            !.refreshes = IF refresh.pending = {}
                                          THEN @ ELSE Append(@, refresh)]
              /\ last' = ReconcileRecord("load", view.loads[i].cause, NoTask,
                                         NoDetails, NoTask, FALSE,
                                         m.writes \o g.writes)
    /\ UNCHANGED today

\* A refreshGithubStatuses that a fetch without details ends: the fetches
\* still pending are dropped and the list in memory is left as it is.
RefreshBranchFailureEndsPass(k, i, fresh) ==
    /\ k \in 1..Len(view.refreshes)
    /\ i \in view.refreshes[k].pending
    /\ LET refresh == view.refreshes[k]
           cached == refresh.updatedTasks[i]
           r == RefreshTask(cached, fresh)
           u == IF r.changed
                THEN UpdateTask(storage, r.task, view.date, DEFAULT_PROFILE,
                                today)
                ELSE [store |-> storage, writes |-> <<>>]
           after == [refresh EXCEPT
                       !.updatedTasks[i] = IF r.changed THEN r.task ELSE @,
                       !.hasChanges = @ \/ r.changed,
                       !.pending = @ \ {i}]
       IN  /\ storage' = u.store
           /\ view' = IF fresh = NoDetails
                      THEN [view EXCEPT !.refreshes = RemoveAt(@, k)]
                      ELSE IF after.pending # {}
                      THEN [view EXCEPT !.refreshes[k] = after]
                      ELSE [view EXCEPT
                              !.refreshes = RemoveAt(@, k),
                              !.tasks = IF after.hasChanges
                                        THEN after.updatedTasks ELSE @]
           /\ last' = ReconcileRecord("reconcile", refresh.cause, cached,
                                      fresh, r.task, r.changed, u.writes)
    /\ UNCHANGED today

\* One task of a refreshGithubStatuses under way: fetchGithubDetails
\* returns, the task is compared and updateTask persists it; after the last
\* of them, setTasks(updatedTasks) if one of them changed.
RefreshBranch(k, i, fresh) ==
    /\ k \in 1..Len(view.refreshes)
    /\ i \in view.refreshes[k].pending
    /\ LET refresh == view.refreshes[k]
           cached == refresh.updatedTasks[i]
           r == RefreshTask(cached, fresh)
           u == IF r.changed
                THEN UpdateTask(storage, r.task, view.date, DEFAULT_PROFILE,
                                today)
                ELSE [store |-> storage, writes |-> <<>>]
           after == [refresh EXCEPT
                       !.updatedTasks[i] = IF r.changed THEN r.task ELSE @,
                       !.hasChanges = @ \/ r.changed,
                       !.pending = @ \ {i}]
       IN  /\ storage' = u.store
           /\ view' = IF after.pending # {}
                      THEN [view EXCEPT !.refreshes[k] = after]
                      ELSE [view EXCEPT
                              !.refreshes = RemoveAt(@, k),
                              !.tasks = IF after.hasChanges
                                        THEN after.updatedTasks ELSE @]
           /\ last' = ReconcileRecord("reconcile", refresh.cause, cached,
                                      fresh, r.task, r.changed, u.writes)
    /\ UNCHANGED today

\* A handler of the view with reconciliation: snapshot, the awaited store
\* operation (result r), loadTasks() left running.
Foreground(op, r, before, after) ==
    LET h == HandleMutation(view, storage, r)
    IN  /\ Len(view.undoStack) < MaxHistory
        /\ Len(view.loads) < MaxLoads
        /\ storage' = h.store
        /\ view' = [h.view EXCEPT
                      !.loads[Len(h.view.loads)] =
                          [pc |-> "read", loaded |-> <<>>, cause |-> op]]
        /\ last' = ReconcileRecord(op, op, before, NoDetails, after, TRUE,
                                   h.writes)
        /\ UNCHANGED today

\* handleToggleStatus() on the i-th task shown
ToggleStatus(i) ==
    /\ i \in 1..Len(view.tasks)
    /\ LET task == view.tasks[i]
           toggled == [task EXCEPT !.status = HandleToggleStatus(task.status)]
       IN  Foreground("toggle",
                      UpdateTask(storage, toggled, view.date, DEFAULT_PROFILE,
                                 today),
                      task, toggled)

\* handleSetStatus(status) on the i-th task shown
SetStatus(i, status) ==
    /\ i \in 1..Len(view.tasks)
    /\ LET task == view.tasks[i]
           updated == [task EXCEPT !.status = status]
       IN  Foreground("setStatus",
                      UpdateTask(storage, updated, view.date, DEFAULT_PROFILE,
                                 today),
                      task, updated)

\* handleDelete() on the i-th task shown
DeleteLinked(i) ==
    /\ i \in 1..Len(view.tasks)
    /\ Foreground("delete",
                  DeleteTask(storage, view.tasks[i].id, view.date,
                             DEFAULT_PROFILE, today),
                  view.tasks[i], NoTask)

NextReconcile ==
    \/ \E i \in 1..MaxLoads : LoadTasks(i)
    \/ \E k \in 1..MaxRefreshes, i \in 1..MaxViewTasks :
          /\ k \in 1..Len(view.refreshes)
          /\ i \in view.refreshes[k].pending
          /\ \E fresh \in FetchResults(view.refreshes[k].updatedTasks[i].github.type)
                          \cup {NoDetails} :
                RefreshBranch(k, i, fresh)
    \/ \E i \in 1..MaxViewTasks : ToggleStatus(i)
    \/ \E i \in 1..MaxViewTasks, status \in SetStatusChoices : SetStatus(i, status)
    \/ \E i \in 1..MaxViewTasks : DeleteLinked(i)

SpecReconcile == InitReconcile /\ [][NextReconcile]_vars


\* The list the partition of the view holds.
StoredTasks(store) == PartitionOf(store, D2, "Work")

\* C26: toggling a task whose status is done sets it to todo, and toggling
\* a task in any other status sets it to done.
ToggleSetsDoneOrTodo ==
    last.op = "toggle" =>
        last.updated.status =
            IF last.cached.status = "done" THEN "todo" ELSE "done"

\* C27: reconciliation never alters the status of a task whose status is
\* paused or done, whatever the freshly fetched remote state is.
ReconcileKeepsPausedAndDone ==
    [][last'.op = "reconcile" =>
        \A i \in 1..Len(StoredTasks(storage)) :
            StoredTasks(storage)[i].status \in {"paused", "done"} =>
                /\ i <= Len(StoredTasks(storage'))
                /\ StoredTasks(storage')[i].status
                       = StoredTasks(storage)[i].status]_vars

\* The task reconciled is one whose status reconciliation may replace, and
\* its fetch returned metadata.
ReconciledDerivable ==
    /\ last.op = "reconcile"
    /\ last.fresh # NoDetails
    /\ last.cached.status \in
           {"todo", "in-progress", "waiting-for-review", "ready-to-merge"}

\* The status of the reconciled task is the one persisted, if the
\* reconciliation wrote.
PersistedStatus(status) ==
    /\ last.updated.status = status
    /\ last.writes # <<>> =>
          \E i \in 1..Len(StoredTasks(storage)) :
              /\ StoredTasks(storage)[i].id = last.cached.id
              /\ StoredTasks(storage)[i].status = status

WritesCompleteWhenResolved ==
    [][(last'.op \in {"load", "reconcile"} /\ last'.writes # <<>>)
           => last'.cause = "mount"]_vars

\* ---------------------------------------------------------------------
\* The store operations step by step: every await of LocalStorage is a
\* point where another operation may run
\* ---------------------------------------------------------------------

MaxCalls == 2

\* A call of createTask, updateTask or migrateTasksToToday that
\* awaits its getTasks ("read") or its saveTasks ("write").
Call(kind, task, migrated) ==
    [kind |-> kind, pc |-> "read", task |-> task, migrated |-> migrated,
     read |-> <<>>]

\* The list the call hands to saveTasks, given the list its getTasks
\* returned.
ListToSave(call, tasks) ==
    CASE call.kind = "create" -> Append(tasks, call.task)
      [] call.kind \in {"update", "reconcile"} ->
            [tasks EXCEPT ![FindIndex(tasks, call.task.id)] = call.task]
      [] call.kind = "rollover" ->
            tasks \o UniqueMigrated(call.migrated, tasks)

\* Whether the call saves at all: updateTask of an id the list does not
\* hold and a rollover with nothing new to append do not.
Saves(call, tasks) ==
    CASE call.kind \in {"update", "reconcile"} ->
            FindIndex(tasks, call.task.id) # 0
      [] call.kind = "rollover" ->
            Len(UniqueMigrated(call.migrated, tasks)) > 0
      [] OTHER -> TRUE

CallRecord(op, call, writes) ==
    [op |-> op, kind |-> call.kind, id |-> call.task.id, read |-> call.read,
     writes |-> writes]

\* Today's partition holds a task linked to an open pull request and
\* waiting for its review, yesterday's an unfinished task; no call is under
\* way.
InitCalls ==
    /\ storage =
         SetItem(SetItem(EmptyStore, GetTaskKey(D2, DEFAULT_PROFILE),
                         Stringify(<<MkLinkedTask("a", "waiting-for-review",
                             GithubMetadata("pull_request", "open", NoReview,
                                            <<>>))>>)),
                 GetTaskKey(D1, DEFAULT_PROFILE),
                 Stringify(<<MkLinkedTask("c", "todo", NoGithub)>>))
    /\ today = D2
    /\ view = [date |-> D2, calls |-> <<>>]
    /\ last = CallRecord("none", Call("", NoTask, <<>>), <<>>)

\* The calls a handler of the view or a command makes; the handlers await
\* them one after the other.
ForegroundKinds == {"create", "update"}

Started(call) ==
    /\ Len(view.calls) < MaxCalls
    /\ call.kind \in ForegroundKinds =>
          \A k \in 1..Len(view.calls) :
              view.calls[k].kind \notin ForegroundKinds
    /\ view' = [view EXCEPT !.calls = Append(@, call)]
    /\ last' = CallRecord("call", call, <<>>)
    /\ UNCHANGED <<storage, today>>

\* handleCreateTaskWrapped, or the add-task command: createTask is called.
CallCreate ==
    /\ "b" \notin IdsOf(StoredTasks(storage))
    /\ Started(Call("create", MkLinkedTask("b", "todo", NoGithub), <<>>))

\* handleToggleStatus on a task shown: updateTask is called.
CallUpdate(i) ==
    /\ i \in 1..Len(StoredTasks(storage))
    /\ LET task == StoredTasks(storage)[i]
       IN  Started(Call("update",
                        [task EXCEPT !.status = HandleToggleStatus(@)], <<>>))

\* refreshGithubStatuses: the fetch of a task returns changed metadata and
\* updateTask is called.
CallReconcile(i, fresh) ==
    /\ i \in TasksToRefresh(StoredTasks(storage))
    /\ LET r == RefreshTask(StoredTasks(storage)[i], fresh)
       IN  /\ r.changed
           /\ Started(Call("reconcile", r.task, <<>>))

\* loadTasks on today's view: migrateTasksToToday reads allItems and
\* rewrites the past partitions; with tasks collected, it goes on to read
\* and save today's list.
CallRollover(order) ==
    LET scan == ScanPast([store |-> storage, migrated |-> <<>>, count |-> 0,
                          writes |-> <<>>], storage, order)
        call == Call("rollover", NoTask, scan.migrated)
    IN  /\ Len(view.calls) < MaxCalls
        /\ \A k \in 1..Len(view.calls) : view.calls[k].kind # "rollover"
        /\ Len(scan.migrated) > 0
        /\ storage' = scan.store
        /\ view' = [view EXCEPT !.calls = Append(@, call)]
        /\ last' = CallRecord("call", call, scan.writes)
        /\ UNCHANGED today

\* await getTasks(date, profile) of a call returns.
CallReads(k) ==
    /\ k \in 1..Len(view.calls)
    /\ view.calls[k].pc = "read"
    /\ LET g == GetTasks(storage, view.date, DEFAULT_PROFILE, today)
           call == [view.calls[k] EXCEPT !.read = g.ret, !.pc = "write"]
       IN  /\ storage' = g.store
           /\ view' = IF Saves(call, g.ret)
                      THEN [view EXCEPT !.calls[k] = call]
                      ELSE [view EXCEPT !.calls = RemoveAt(@, k)]
           /\ last' = CallRecord("read", call, g.writes)
    /\ UNCHANGED today

\* await saveTasks(date, tasks, profile) of a call returns, and the call
\* with it.
CallWrites(k) ==
    /\ k \in 1..Len(view.calls)
    /\ view.calls[k].pc = "write"
    /\ LET call == view.calls[k]
           s == SaveTasks(storage, view.date, ListToSave(call, call.read),
                          DEFAULT_PROFILE)
       IN  /\ storage' = s.store
           /\ view' = [view EXCEPT !.calls = RemoveAt(@, k)]
           /\ last' = CallRecord("write", call, s.writes)
    /\ UNCHANGED today

NextCalls ==
    \/ CallCreate
    \/ \E i \in 1..MaxViewTasks : CallUpdate(i)
    \/ \E i \in 1..MaxViewTasks, fresh \in PullRequestMetadata :
          /\ fresh.reviewState = NoReview
          /\ fresh.state \in {"open", "merged"}
          /\ CallReconcile(i, fresh)
    \/ \E order \in Orders(ScannedKeys(storage, DEFAULT_PROFILE, today)) :
          CallRollover(order)
    \/ \E k \in 1..MaxCalls : CallReads(k)
    \/ \E k \in 1..MaxCalls : CallWrites(k)

SpecCalls == InitCalls /\ [][NextCalls]_vars

\* C22: the load and the save of a reconciliation write, of a rollover and
\* of a foreground create, update or delete on the same partition never
\* interleave: no save drops or reverts a task that another, completed
\* operation has stored since the saving operation read the list.
NoLostUpdate ==
    [][last'.op = "write" =>
        /\ last'.read = StoredTasks(storage)
        /\ \A t \in Elems(StoredTasks(storage)) :
              t.id # last'.id => t \in Elems(StoredTasks(storage'))]_vars

\* ---------------------------------------------------------------------
\* One pass of refreshGithubStatuses over a list of several tasks
\* ---------------------------------------------------------------------

\* The ids of the tasks of the list, in the order of the list.
PassIds == <<"a", "b">>

\* A task of the list: without a link, or linked to an open pull request
\* or to an open issue without linked pull requests.
PassTasks(id) ==
    {MkLinkedTask(id, "todo", NoGithub)}
    \cup {MkLinkedTask(id, status, GithubMetadata(type, "open", NoReview, <<>>)) :
            status \in {"todo", "waiting-for-review"},
            type \in {"pull_request", "issue"}}

\* The view of today's tasks is mounted and its loadTasks is under way.
InitPass ==
    /\ \E tasks \in [1..Len(PassIds) -> UNION {PassTasks(PassIds[n]) :
                                               n \in 1..Len(PassIds)}] :
          /\ \A n \in 1..Len(PassIds) : tasks[n].id = PassIds[n]
          /\ storage = SetItem(EmptyStore, GetTaskKey(D2, DEFAULT_PROFILE),
                               Stringify(tasks))
    /\ today = D2
    /\ view = [date |-> D2, tasks |-> <<>>, undoStack |-> <<>>,
               redoStack |-> <<>>,
               loads |-> <<[pc |-> "read", loaded |-> <<>>, cause |-> "mount"]>>,
               refreshes |-> <<>>]
    /\ last = ReconcileRecord("none", "", NoTask, NoDetails, NoTask, FALSE, <<>>)

NextPass ==
    \/ \E i \in 1..MaxLoads : LoadTasks(i)
    \/ \E k \in 1..MaxRefreshes, i \in 1..Len(PassIds) :
          /\ k \in 1..Len(view.refreshes)
          /\ i \in view.refreshes[k].pending
          /\ \E fresh \in FetchResults(view.refreshes[k].updatedTasks[i].github.type)
                          \cup {NoDetails} :
                RefreshBranch(k, i, fresh)

SpecPass == InitPass /\ [][NextPass]_vars

\* The pass that takes the step: the k-th refreshGithubStatuses under way
\* has one fetch less pending, or has returned.
PassStepped(k) ==
    /\ k \in 1..Len(view.refreshes)
    /\ \/ view'.refreshes = RemoveAt(view.refreshes, k)
       \/ /\ Len(view'.refreshes) = Len(view.refreshes)
          /\ view'.refreshes[k] # view.refreshes[k]

\* The pass has returned with this step.
PassReturned(k) ==
    /\ k \in 1..Len(view.refreshes)
    /\ view'.refreshes = RemoveAt(view.refreshes, k)

\* C31: reconciliation does not rewrite unchanged tasks: a fetch that shows
\* no detected change issues no storage write (hence no export, which only
\* a save triggers); a pass in which no fetch showed a change does not
\* replace the list in memory; and a task without github metadata is never
\* fetched nor written.
UnchangedNotRewritten ==
    [][last'.op = "reconcile" =>
        /\ last'.cached.github # NoGithub
        /\ ~last'.changed => (last'.writes = <<>> /\ storage' = storage)
        /\ \A k \in 1..Len(view.refreshes) :
              /\ (PassStepped(k) /\ ~PassReturned(k)) =>
                     view'.tasks = view.tasks
              /\ (PassReturned(k) /\ ~view.refreshes[k].hasChanges
                                  /\ ~last'.changed) =>
                     view'.tasks = view.tasks]_vars

\* A pass over a linked and an unlinked task has returned without a change.
PassWithoutChange ==
    /\ last.op = "reconcile"
    /\ last.fresh # NoDetails
    /\ ~last.changed
    /\ view.refreshes = <<>>
    /\ view.loads = <<>>
    /\ Len(view.tasks) = 2
    /\ view.tasks[1].github = NoGithub
    /\ view.tasks[2] = last.cached
    /\ StoredTasks(storage) = view.tasks

\* The place in the list of the task the step has reconciled.
Reconciled(refresh, i) ==
    /\ i \in refresh.pending
    /\ refresh.updatedTasks[i] = last'.cached

\* C32: resolver failures are isolated per task: when fetchGithubDetails
\* returns nothing for a task, nothing is written and the task stays as
\* it was in the list of the pass; the other tasks of the pass stay
\* pending until their own fetch returns, and each of them that changed is
\* persisted as fetched and shown when the pass returns.
ResolverFailureIsolated ==
    [][last'.op = "reconcile" =>
        \A k \in 1..Len(view.refreshes) : PassStepped(k) =>
            LET refresh == view.refreshes[k]
            IN  \E i \in 1..Len(refresh.updatedTasks) :
                  /\ Reconciled(refresh, i)
                  /\ last'.fresh = NoDetails =>
                        /\ last'.writes = <<>>
                        /\ storage' = storage
                  /\ (last'.fresh # NoDetails /\ last'.changed) =>
                        /\ last'.updated.github = last'.fresh
                        /\ last'.updated \in Elems(StoredTasks(storage'))
                  /\ IF PassReturned(k)
                     THEN /\ refresh.pending = {i}
                          /\ \A j \in 1..Len(refresh.updatedTasks) :
                                j # i => /\ j <= Len(view'.tasks)
                                         /\ view'.tasks[j] =
                                              IF refresh.hasChanges \/ last'.changed
                                              THEN refresh.updatedTasks[j]
                                              ELSE view.tasks[j]
                          /\ last'.fresh = NoDetails =>
                                /\ i <= Len(view'.tasks)
                                /\ view'.tasks[i] = last'.cached
                     ELSE /\ view'.refreshes[k].pending = refresh.pending \ {i}
                          /\ \A j \in 1..Len(refresh.updatedTasks) :
                                j # i => view'.refreshes[k].updatedTasks[j]
                                            = refresh.updatedTasks[j]
                          /\ last'.fresh = NoDetails =>
                                view'.refreshes[k].updatedTasks[i] = last'.cached
                          /\ view'.tasks = view.tasks]_vars

\* The fetch of the first task returned nothing after the second task was
\* found merged: the pass has returned, the first task is as it was loaded,
\* and the second is stored and shown as merged.
FailedBesidePersisted ==
    /\ last.op = "reconcile"
    /\ last.fresh = NoDetails
    /\ last.cached.id = "a"
    /\ view.refreshes = <<>>
    /\ Len(view.tasks) = 2
    /\ view.tasks[1] = last.cached
    /\ view.tasks[2].github.state = "merged"
    /\ StoredTasks(storage) = view.tasks

\* ---------------------------------------------------------------------
\* The linked pull requests of an issue: extractLinkedPRs
\* ---------------------------------------------------------------------

MaxTimeline == 3

\* A node of issue.timelineItems: its __typename, and the number, state and
\* merged of its subject (ConnectedEvent) or source (CrossReferencedEvent).
\* Number 0 stands for an absent subject or source, merged "undefined" for
\* a source that is an issue.
TimelineNode(typename, number, state, merged) ==
    [typename |-> typename, number |-> number, state |-> state,
     merged |-> merged]

TimelineNodes ==
    {TimelineNode("ConnectedEvent", 1, "OPEN", "false"),
     TimelineNode("ConnectedEvent", 1, "CLOSED", "true"),
     TimelineNode("ConnectedEvent", 2, "CLOSED", "false"),
     TimelineNode("ConnectedEvent", 0, "", "undefined"),
     TimelineNode("CrossReferencedEvent", 1, "OPEN", "false"),
     TimelineNode("CrossReferencedEvent", 1, "CLOSED", "undefined"),
     TimelineNode("CrossReferencedEvent", 2, "OPEN", "false"),
     TimelineNode("LabeledEvent", 1, "OPEN", "false")}

Timelines == UNION {[1..n -> TimelineNodes] : n \in 0..MaxTimeline}

\* prData of a node; NoPrData is null.
NoPrData == [number |-> 0, state |-> "", merged |-> "undefined"]

PrData(node) ==
    IF node.typename = "ConnectedEvent" /\ node.number # 0
    THEN [number |-> node.number, state |-> node.state, merged |-> node.merged]
    ELSE IF /\ node.typename = "CrossReferencedEvent"
            /\ node.number # 0
            /\ node.merged # "undefined"
    THEN [number |-> node.number, state |-> node.state, merged |-> node.merged]
    ELSE NoPrData

\* The state of the entry pushed for prData.
LinkedState(prData) ==
    IF prData.merged = "true" THEN "MERGED"
    ELSE IF prData.state = "OPEN" THEN "OPEN" ELSE "CLOSED"

\* seenPRNumbers.has(number) looking at the entry pushed last only.
SeenLast(linkedPRs, number) ==
    /\ Len(linkedPRs) > 0
    /\ linkedPRs[Len(linkedPRs)].number = number

\* seenPRNumbers.has(number): a number is added with every entry pushed.
Seen(linkedPRs, number) ==
    \E i \in 1..Len(linkedPRs) : linkedPRs[i].number = number

\* The loop of extractLinkedPRs from its n-th node on.
RECURSIVE ExtractFrom(_, _, _)
ExtractFrom(timelineNodes, n, linkedPRs) ==
    IF n > Len(timelineNodes) THEN linkedPRs
    ELSE LET prData == PrData(timelineNodes[n])
         IN  ExtractFrom(timelineNodes, n + 1,
                 IF prData # NoPrData /\ ~Seen(linkedPRs, prData.number)
                 THEN Append(linkedPRs, [number |-> prData.number,
                                         state |-> LinkedState(prData)])
                 ELSE linkedPRs)

ExtractLinkedPRs(timelineNodes) == ExtractFrom(timelineNodes, 1, <<>>)

\* fetchGithubDetails has received the timeline of an issue.
InitExtract ==
    /\ storage = EmptyStore
    /\ today = D2
    /\ \E timelineNodes \in Timelines :
          view = [timelineNodes |-> timelineNodes]
    /\ last = [op |-> "none", linkedPRs |-> <<>>]

\* linkedPRs = extractLinkedPRs(issue.timelineItems.nodes)
Extract ==
    /\ last.op = "none"
    /\ last' = [op |-> "extract",
                linkedPRs |-> ExtractLinkedPRs(view.timelineNodes)]
    /\ UNCHANGED <<storage, today, view>>

NextExtract == Extract

SpecExtract == InitExtract /\ [][NextExtract]_vars

\* The nodes of the timeline that reference a pull request of that number.
References(timelineNodes, number) ==
    {n \in 1..Len(timelineNodes) :
        /\ PrData(timelineNodes[n]) # NoPrData
        /\ PrData(timelineNodes[n]).number = number}

\* The first of a non-empty set of nodes, in timeline order.
First(nodes) == CHOOSE n \in nodes : \A m \in nodes : n <= m

\* C33: the linked-PR list produced for an issue never contains two entries
\* with the same number, whatever events reference the same pull request;
\* each pull request referenced has an entry, taken from the first event,
\* in timeline order, that references it.
LinkedPRsUniqueFirstKept ==
    last.op = "extract" =>
        LET linkedPRs == last.linkedPRs
            nodes == view.timelineNodes
        IN  /\ \A i, j \in 1..Len(linkedPRs) :
                  linkedPRs[i].number = linkedPRs[j].number => i = j
            /\ \A i \in 1..Len(linkedPRs) :
                  /\ References(nodes, linkedPRs[i].number) # {}
                  /\ linkedPRs[i].state =
                       LinkedState(PrData(nodes[First(
                           References(nodes, linkedPRs[i].number))]))
            /\ \A n \in 1..Len(nodes) :
                  PrData(nodes[n]) # NoPrData =>
                      \E i \in 1..Len(linkedPRs) :
                          linkedPRs[i].number = PrData(nodes[n]).number

\* A pull request connected while open, another cross-referenced, then the
\* first connected again once merged: two entries, the first one open.
ExtractedRepeatedMixed ==
    /\ last.op = "extract"
    /\ view.timelineNodes =
         <<TimelineNode("CrossReferencedEvent", 1, "OPEN", "false"),
           TimelineNode("CrossReferencedEvent", 2, "OPEN", "false"),
           TimelineNode("ConnectedEvent", 1, "CLOSED", "true")>>
    /\ last.linkedPRs = <<[number |-> 1, state |-> "OPEN"],
                          [number |-> 2, state |-> "OPEN"]>>

\* C34: task ids are unique within a partition in every reachable state:
\* from the empty store, after any sequence of creates with fresh ids,
\* saves of undo and redo from the views of any date, rollovers and
\* midnights, no partition holds two tasks with the same id.
IdsUniqueInEveryPartition ==
    \A pair \in DefaultPairs : UniqueIds(PartitionOf(storage, pair[1], pair[2]))

\* C35: the undo and redo stacks are bounded: the length of the undo stack
\* and the length of the redo stack never exceed a fixed limit, however
\* many mutations, undos and redos are performed in one session.  The
\* limit tried is any number below MaxHistory, the number of snapshots the
\* guards of the model let a session take.
StacksWithinLimit ==
    /\ Len(view.undoStack) < MaxHistory
    /\ Len(view.redoStack) < MaxHistory

\* ---------------------------------------------------------------------
\* getTasks step by step: the legacy record is read, removed and written
\* under today's key in three awaits, between which other calls run
\* ---------------------------------------------------------------------

\* A call of getTasks (kind "load") or of createTask (kind "create") at
\* its getItem("tasks") ("old"), its removeItem ("remove"), its
\* setItem(todayKey, oldData) ("set"), its getItem(dateKey) ("data") or its
\* saveTasks ("save").
GetTasksCall(kind, date, profile, task) ==
    [kind |-> kind, date |-> date, profile |-> profile, task |-> task,
     pc |-> "old", oldData |-> Garbage, tasks |-> <<>>]

LegacyRecord(op, call, replaced) ==
    [op |-> op, kind |-> call.kind, profile |-> call.profile,
     date |-> call.date, oldData |-> call.oldData, replaced |-> replaced]

\* The first run of this version: the store holds the legacy record and no
\* call is under way.
InitLegacy ==
    /\ storage \in {SetItem(EmptyStore, LEGACY_KEY, v) : v \in LegacyValues}
    /\ today = D2
    /\ view = [calls |-> <<>>]
    /\ last = LegacyRecord("none", GetTasksCall("", "", "", NoTask), <<>>)

\* What today's partition of the default profile holds.
TodayList(store) == PartitionOf(store, today, DEFAULT_PROFILE)

\* A call begins: it is added to the calls under way, at its first await.
\* The callers bound the number of calls under way by MaxCalls.
GetTasksStarted(call) ==
    /\ view' = [view EXCEPT !.calls = Append(@, call)]
    /\ last' = LegacyRecord("call", call, TodayList(storage))
    /\ UNCHANGED <<storage, today>>

\* loadTasks of a view, or the profile's list of another command:
\* getTasks(date, profile)
CallGetTasks(date, profile) ==
    /\ Len(view.calls) < MaxCalls
    /\ GetTasksStarted(GetTasksCall("load", date, profile, NoTask))

\* createTask(task, date, profile) with a task whose id is uuidv4()
CallCreateTask(date, profile) ==
    /\ Len(view.calls) < MaxCalls
    /\ "b" \notin StoredIds(storage)
    /\ \A k \in 1..Len(view.calls) : view.calls[k].kind # "create"
    /\ GetTasksStarted(GetTasksCall("create", date, profile,
                                    MkLinkedTask("b", "todo", NoGithub)))

\* A step of the k-th call that leaves it as `call`, or ends it.
GetTasksStep(op, k, call, store, ended) ==
    /\ storage' = store
    /\ view' = IF ended
               THEN [view EXCEPT !.calls = RemoveAt(@, k)]
               ELSE [view EXCEPT !.calls[k] = call]
    /\ last' = LegacyRecord(op, call, TodayList(storage))
    /\ UNCHANGED today

\* getTasks returns `tasks` to the call: a load is over, a createTask
\* pushes its task and goes on to saveTasks.
GetTasksReturns(op, k, call, store, tasks) ==
    GetTasksStep(op, k,
                 [call EXCEPT !.pc = "save", !.tasks = Append(tasks, call.task)],
                 store, call.kind = "load")

\* lines 55-57: oldData = await LocalStorage.getItem("tasks"), for the
\* default profile only.
GetItemLegacy(k) ==
    /\ k \in 1..Len(view.calls)
    /\ view.calls[k].pc = "old"
    /\ LET call == view.calls[k]
       IN  IF LegacyPending(storage, call.profile)
           THEN GetTasksStep("getItem", k,
                             [call EXCEPT !.pc = "remove",
                                          !.oldData = storage[LEGACY_KEY]],
                             storage, FALSE)
           ELSE GetTasksStep("getItem", k, [call EXCEPT !.pc = "data"],
                             storage, FALSE)

\* line 59: await LocalStorage.removeItem("tasks")
RemoveItemLegacy(k) ==
    /\ k \in 1..Len(view.calls)
    /\ view.calls[k].pc = "remove"
    /\ GetTasksStep("removeItem", k, [view.calls[k] EXCEPT !.pc = "set"],
                    RemoveItem(storage, LEGACY_KEY), FALSE)

\* A migration that keeps the tasks today's partition holds and appends
\* the legacy ones.
SetItemTodayMerging(store, todayKey, oldData) ==
    SetItem(store, todayKey,
            Stringify(ReadList(store, todayKey) \o ParseOrEmpty(oldData)))

\* line 60: await LocalStorage.setItem(todayKey, oldData)
SetItemToday(store, todayKey, oldData) == SetItem(store, todayKey, oldData)

\* lines 60-67: the legacy value is written under today's key; a call for
\* today's date returns its parsed list, another one goes on to read its
\* own key.
SetItemLegacy(k) ==
    /\ k \in 1..Len(view.calls)
    /\ view.calls[k].pc = "set"
    /\ LET call == view.calls[k]
           todayKey == GetTaskKey(today, DEFAULT_PROFILE)
           store == SetItemToday(storage, todayKey, call.oldData)
       IN  IF GetTaskKey(call.date, call.profile) = todayKey
           THEN GetTasksReturns("setItem", k, call, store,
                                ParseOrEmpty(call.oldData))
           ELSE GetTasksStep("setItem", k, [call EXCEPT !.pc = "data"],
                             store, FALSE)

\* lines 71-77: data = await LocalStorage.getItem(dateKey), parsed
GetItemDateKey(k) ==
    /\ k \in 1..Len(view.calls)
    /\ view.calls[k].pc = "data"
    /\ LET call == view.calls[k]
       IN  GetTasksReturns("getData", k, call, storage,
                           ReadList(storage,
                                    GetTaskKey(call.date, call.profile)))

\* createTask, line 97: await saveTasks(date, tasks, profile)
SaveTasksReturns(k) ==
    /\ k \in 1..Len(view.calls)
    /\ view.calls[k].pc = "save"
    /\ LET call == view.calls[k]
       IN  GetTasksStep("save", k, call,
                        SaveTasks(storage, call.date, call.tasks,
                                  call.profile).store,
                        TRUE)

LegacyPairs == {<<D1, DEFAULT_PROFILE>>, <<D2, DEFAULT_PROFILE>>, <<D2, "1st">>}

NextLegacy ==
    \/ \E pair \in LegacyPairs : CallGetTasks(pair[1], pair[2])
    \/ \E pair \in LegacyPairs : CallCreateTask(pair[1], pair[2])
    \/ \E k \in 1..MaxCalls : GetItemLegacy(k)
    \/ \E k \in 1..MaxCalls : RemoveItemLegacy(k)
    \/ \E k \in 1..MaxCalls : SetItemLegacy(k)
    \/ \E k \in 1..MaxCalls : GetItemDateKey(k)
    \/ \E k \in 1..MaxCalls : SaveTasksReturns(k)

SpecLegacy == InitLegacy /\ [][NextLegacy]_vars

\* C36: legacy migration replaces rather than merges: when a load writes
\* the legacy record under today's key of the default profile, that key
\* afterwards holds exactly the legacy value, whatever tasks it held, and
\* no other key changes, so that the tasks it held are kept nowhere; only
\* calls for the default profile remove or move the legacy record.
LegacyReplacesToday ==
    [][LET todayKey == GetTaskKey(today, DEFAULT_PROFILE)
       IN  /\ last'.op = "setItem" =>
                /\ last'.profile = DEFAULT_PROFILE
                /\ storage'[todayKey] = last'.oldData
                /\ \A key \in DOMAIN storage' \ {todayKey} :
                      key \in DOMAIN storage /\ storage'[key] = storage[key]
                /\ \A task \in Elems(TodayList(storage)) :
                      task.id \in StoredIds(storage') =>
                          task.id \in IdsOf(ParseOrEmpty(last'.oldData))
                                      \cup StoredIds(RemoveItem(storage, todayKey))
           /\ last'.profile # DEFAULT_PROFILE =>
                /\ last'.op \notin {"removeItem", "setItem"}
                /\ Has(storage', LEGACY_KEY) = Has(storage, LEGACY_KEY)
                /\ Has(storage, LEGACY_KEY) =>
                      storage'[LEGACY_KEY] = storage[LEGACY_KEY]]_vars

\* A load has written the legacy list [a] over today's partition, which
\* held the task b created meanwhile: b is stored nowhere.
LegacyReplacedCreatedTask ==
    /\ last.op = "setItem"
    /\ "b" \in IdsOf(last.replaced)
    /\ "b" \notin StoredIds(storage)
    /\ storage[GetTaskKey(today, DEFAULT_PROFILE)]
           = Stringify(<<MkTask("a", "todo")>>)

\* C37: a reconciliation write changes only the github metadata of the
\* task it targets: in storage, the status and title of that task and
\* every other task keep the values stored immediately before the write,
\* also when the user updated the task after the list was loaded and before
\* the fetch completed.
ReconcileWritesOnlyGithub ==
    [][(last'.op = "write" /\ last'.kind = "reconcile") =>
        /\ Len(StoredTasks(storage')) = Len(StoredTasks(storage))
        /\ \A i \in 1..Len(StoredTasks(storage)) :
              LET before == StoredTasks(storage)[i]
                  after == StoredTasks(storage')[i]
              IN  /\ after.id = before.id
                  /\ after.status = before.status
                  /\ after.title = before.title
                  /\ before.id # last'.id => after = before]_vars

\* C38: a task deleted while its reconciliation fetch is in flight is never
\* written back to storage by that reconciliation: when the fetch
\* completes, the stored partition still does not contain the task; and
\* once reconciliation has finished, the list shown contains no task that
\* is absent from the stored partition.  A task that the list showed
\* unchanged before the reconciliation finished, its reload being under way,
\* is not held against the reconciliation.
DeletedTaskStaysDeleted ==
    [][last'.op = "reconcile" =>
        /\ last'.cached.id \notin IdsOf(StoredTasks(storage)) =>
              last'.cached.id \notin IdsOf(StoredTasks(storage'))
        /\ view'.refreshes = <<>> =>
              \A task \in Elems(view'.tasks) :
                  task.id \notin IdsOf(StoredTasks(storage')) =>
                      task \in Elems(view.tasks)]_vars

\* The ids stored across the partitions of a profile.
ProfileIds(store, profile) ==
    UNION {IdsOf(PartitionOf(store, d, profile)) : d \in Dates}

\* Every partition of the profile that is present parses.
AllParse(store, profile) ==
    \A d \in Dates :
        PartitionKey(d, profile) \in DOMAIN store =>
            store[PartitionKey(d, profile)].kind = "json"

\* C39: rollover loses no task: from a stored state of a profile whose
\* partitions all parse, the set of task ids stored across the partitions
\* of the profile is the same before and after rollover(profile), and
\* every task appended to today's partition is a task a past partition
\* held, with its status and every other field unchanged.
RolloverLosesNoTask ==
    [][\A p \in Profiles : (RolloverStep(p) /\ AllParse(storage, p)) =>
        LET before == PartitionOf(storage, today, p)
            after == PartitionOf(storage', today, p)
        IN  /\ ProfileIds(storage', p) = ProfileIds(storage, p)
            /\ AllParse(storage', p)
            /\ \A i \in (Len(before) + 1)..Len(after) :
                  after[i] \in PastUnfinished(storage, p, today)
      ]_vars

\* A rollover has appended to today's partition, which now holds two
\* tasks, and left a done task behind in a past partition.
RolloverRelocatedBesideDone ==
    /\ AfterRollover
    /\ last.exports = 1
    /\ Len(PartitionOf(storage, today, DEFAULT_PROFILE)) = 2
    /\ \E d \in PastDates(today) :
          /\ Len(PartitionOf(storage, d, DEFAULT_PROFILE)) = 1
          /\ PartitionOf(storage, d, DEFAULT_PROFILE)[1].status = "done"

\* C40: the default profile is always listed: starting from an empty
\* profile directory, after any sequence of create(name) and delete(name),
\* list() returns a non-empty list that contains the default profile.
DefaultProfileAlwaysListed ==
    last.op = "list" =>
        /\ Len(last.ret) > 0
        /\ "Work" \in Elems(last.ret)

\* list() after a delete has left the directory record holding the
\* default profile alone.
ListedAfterCreateAndDelete ==
    /\ last.op = "list"
    /\ StoredNames(storage) = <<"Work">>
    /\ last.ret = <<"Work">>

====
